---- MODULE Spec2Model ----
(***************************************************************************)
(* KZG proof verification of kzg-rs (BLS12-381, EIP-4844), as a state      *)
(* machine over the crate's entry points.                                  *)
(*                                                                         *)
(* Scaling.  The scalar field F_r, the groups G1, G2, Gt and the byte      *)
(* widths are scaled down so that the arithmetic can be enumerated:        *)
(*   - a field element is BYTES_PER_FIELD_ELEMENT = 2 bytes instead of     *)
(*     32 and a Scalar holds 2 limbs of 8 bits instead of 4 of 64; the     *)
(*     modulus r is the 15-bit prime 0x73c1, so that, as for BLS12-381,    *)
(*     2r < 2^(8 * bytes) < 3r and r = 1 (mod 2^4);                        *)
(*   - G1, G2 and Gt are cyclic groups of order r.  A group element is     *)
(*     represented by its discrete logarithm to the generator, the group   *)
(*     law is addition mod r and the pairing e([a]G1, [b]G2) = a*b in Gt   *)
(*     (written additively) is the unique bilinear map up to the choice    *)
(*     of generators;                                                      *)
(*   - a blob holds 2^MaxScale field elements instead of 4096.             *)
(* A Scalar is stored, as in the bls12_381 crate, in Montgomery form:      *)
(* the limbs of the scalar s hold s*R mod r with R = 2^ScalarBits.         *)
(***************************************************************************)
EXTENDS Integers, Sequences, FiniteSets, Bags, TLC

\* ------------------------------------------------------------------- state

\* Arguments of the functions that take none of the verifiers' variables
\* below, a record by parameter name; usize_bytes is the target's pointer width.
VARIABLE args

\* ------------------------------------------------------------------ bounds

\* log2 of the number of field elements per blob (12 in the crate).
MaxScale == 2
\* Largest number of blobs handed to verify_blob_kzg_proof_batch.
MaxBatch == 2
\* Largest number of (point, scalar) pairs handed to msm_variable_base.
MaxMsm == 2
\* Number of threads that call EnvKzgSettings::get, and calls per thread.
MaxThreads == 3
MaxCalls == 2
\* Largest number of scalars for which the window size of msm_variable_base
\* is computed.
MaxScalars == 70

\* --------------------------------------------------------------- constants

\* crate::MODULUS, the order r of the scalar field (scaled, see above).
MODULUS == 29633
BYTES_PER_FIELD_ELEMENT == 2
BYTES_PER_COMMITMENT == 3
BYTES_PER_PROOF == 3
DOMAIN_STR_LENGTH == 16
NUM_FIELD_ELEMENTS_PER_BLOB == 2 ^ MaxScale
BYTES_PER_BLOB == NUM_FIELD_ELEMENTS_PER_BLOB * BYTES_PER_FIELD_ELEMENT
NUM_G1_POINTS == NUM_FIELD_ELEMENTS_PER_BLOB
NUM_G2_POINTS == 3
NUM_ROOTS_OF_UNITY == NUM_FIELD_ELEMENTS_PER_BLOB
BYTES_PER_G1_POINT == 3
BYTES_PER_G2_POINT == 6
CHALLENGE_INPUT_SIZE == DOMAIN_STR_LENGTH + 16 + BYTES_PER_BLOB + BYTES_PER_COMMITMENT
\* "FSBLOBVERIFY_V1_"
FIAT_SHAMIR_PROTOCOL_DOMAIN ==
    <<70, 83, 66, 76, 79, 66, 86, 69, 82, 73, 70, 89, 95, 86, 49, 95>>
\* "RCKZGBATCH___V1_"
RANDOM_CHALLENGE_KZG_BATCH_DOMAIN ==
    <<82, 67, 75, 90, 71, 66, 65, 84, 67, 72, 95, 95, 95, 86, 49, 95>>
\* SCALE2_ROOT_OF_UNITY[i + 1] is a primitive 2^i-th root of unity of F_r.
SCALE2_ROOT_OF_UNITY == <<1, 29632, 8442, 2424, 2982>>

\* Bits of one byte and of a whole Scalar (4 * 64 = 256 in the crate).
ByteSize == 256
ScalarBits == 8 * BYTES_PER_FIELD_ELEMENT
\* R = 2^ScalarBits mod r, the Montgomery radix of Scalar, and its inverse.
MontR == (2 ^ ScalarBits) % MODULUS
MontRInv == 11546

\* ------------------------------------------------------------ result values

Ok(v) == [tag |-> "Ok", val |-> v, err |-> "None"]
Err(e) == [tag |-> "Err", val |-> FALSE, err |-> e]
\* A Rust panic (unwrap of None, index out of bounds): the call aborts.
Panic(m) == [tag |-> "Panic", val |-> FALSE, err |-> m]
IsOk(r) == r.tag = "Ok"
IsErr(r, e) == r.tag = "Err" /\ r.err = e
IsPanic(r) == r.tag = "Panic"
\* CtOption of the bls12_381 crate.
Some(v) == [some |-> TRUE, v |-> v]
None == [some |-> FALSE, v |-> 0]

\* ----------------------------------------------- Scalar (Montgomery limbs)

\* Canonical integer s -> limbs of Scalar (s * R mod r).
ToMont(s) == (s * MontR) % MODULUS
\* Scalar::montgomery_reduce(l0, l1, l2, l3, 0, 0, 0, 0): limbs m -> m / R mod r.
montgomery_reduce(m) == (m * MontRInv) % MODULUS
ScalarZero == 0
ScalarOne == ToMont(1)
ScalarFromU64(n) == ToMont(n % MODULUS)
ScalarAdd(a, b) == (a + b) % MODULUS
ScalarSub(a, b) == (a + MODULUS - b) % MODULUS
ScalarNeg(a) == (MODULUS - a) % MODULUS
\* Montgomery multiplication: limbs of (a/R) * (b/R) * R.
ScalarMul(a, b) == (((a * b) % MODULUS) * MontRInv) % MODULUS

RECURSIVE ScalarPow(_, _)
ScalarPow(a, e) ==
    IF e = 0 THEN ScalarOne
    ELSE LET h == ScalarPow(a, e \div 2)
             sq == ScalarMul(h, h)
         IN IF e % 2 = 1 THEN ScalarMul(sq, a) ELSE sq

\* Extended Euclid on canonical integers, with r0 = s0 * a and r1 = s1 * a
\* (mod r) throughout: the inverse of a modulo the prime r.
RECURSIVE InverseEuclid(_, _, _, _)
InverseEuclid(r0, r1, s0, s1) ==
    IF r1 = 0 THEN s0
    ELSE InverseEuclid(r1, r0 % r1, s1,
                       (s0 + (MODULUS - ((r0 \div r1) % MODULUS)) * s1) % MODULUS)

\* Scalar::invert: None for zero, else a^(r - 2), the field inverse.
ScalarInvert(a) ==
    IF a = ScalarZero THEN None
    ELSE Some(ToMont(InverseEuclid(MODULUS, montgomery_reduce(a), 0, 1)))

\* ------------------------------------------------- G1, G2, Gt and the pairing

\* A point of G1 or G2 is its discrete logarithm to the generator, in 0..r-1.
G1Identity == 0
G1Generator == 1
G2Generator == 1
GtIdentity == 0
G1Add(p, q) == (p + q) % MODULUS
G1Neg(p) == (MODULUS - p) % MODULUS
G1Sub(p, q) == G1Add(p, G1Neg(q))
\* point * Scalar: the point times the integer the Scalar's limbs stand for.
G1Mul(p, s) == (p * montgomery_reduce(s)) % MODULUS
G1Double(p) == G1Add(p, p)
G2Sub(p, q) == (p + MODULUS - q) % MODULUS
G2Mul(p, s) == (p * montgomery_reduce(s)) % MODULUS
\* e(p, q) as an exponent of the generator of Gt.
pairing(p, q) == (p * q) % MODULUS
GtMul(a, b) == (a + b) % MODULUS

\* --------------------------------------------------------------- encodings

Reverse(s) == [i \in 1..Len(s) |-> s[Len(s) + 1 - i]]

RECURSIVE BEValue(_)
\* The integer a byte string denotes, most significant byte first.
BEValue(bytes) ==
    IF bytes = <<>> THEN 0
    ELSE BEValue(SubSeq(bytes, 1, Len(bytes) - 1)) * ByteSize + bytes[Len(bytes)]

\* The integer a byte string denotes, least significant byte first.
LEValue(bytes) == BEValue(Reverse(bytes))

RECURSIVE to_be_bytes(_, _)
\* n.to_be_bytes() of an integer type of `len` bytes.
to_be_bytes(n, len) ==
    IF len = 0 THEN <<>>
    ELSE Append(to_be_bytes(n \div ByteSize, len - 1), n % ByteSize)

\* Scalar::from_bytes: canonical little-endian bytes, None when the value is >= r.
ScalarFromBytes(lendian) ==
    LET v == LEValue(lendian)
    IN IF v < MODULUS THEN Some(ToMont(v)) ELSE None

\* Scalar::to_bytes: the canonical value, little-endian.
ScalarToBytes(s) == Reverse(to_be_bytes(montgomery_reduce(s), BYTES_PER_FIELD_ELEMENT))

\* Scalar::from_raw: limbs (least significant first) times R^2, Montgomery-reduced,
\* that is the limbs' integer modulo r, in Montgomery form.
ScalarFromRaw(limbs) == ToMont(LEValue(limbs) % MODULUS)

\* The flag bits of the first byte of a compressed point.
CompressionFlag == 128
InfinityFlag == 64
SortFlag == 32
\* Largest x of a point: the points a and r - a share x = min(a, r - a), and the
\* sort flag tells them apart (the larger one has it set).
MaxX == (MODULUS - 1) \div 2

\* G1Affine::from_compressed: None unless the compression flag is set, and either
\* the infinity flag is set alone with x = 0, or x is the coordinate of a point
\* of the subgroup.
G1FromCompressed(bytes) ==
    LET compression == (bytes[1] \div CompressionFlag) % 2 = 1
        infinity == (bytes[1] \div InfinityFlag) % 2 = 1
        sort == (bytes[1] \div SortFlag) % 2 = 1
        x == BEValue(<<bytes[1] % SortFlag>> \o SubSeq(bytes, 2, Len(bytes)))
    IN IF ~compression THEN None
       ELSE IF infinity
            THEN IF ~sort /\ x = 0 THEN Some(G1Identity) ELSE None
            ELSE IF x >= 1 /\ x <= MaxX
                 THEN Some(IF sort THEN MODULUS - x ELSE x)
                 ELSE None

\* G1Affine::to_compressed.
G1ToCompressed(p) ==
    IF p = G1Identity
    THEN <<CompressionFlag + InfinityFlag>> \o [i \in 1..(BYTES_PER_COMMITMENT - 1) |-> 0]
    ELSE LET sort == p > MaxX
             x == IF sort THEN MODULUS - p ELSE p
             b == to_be_bytes(x, BYTES_PER_COMMITMENT)
         IN <<b[1] + CompressionFlag + (IF sort THEN SortFlag ELSE 0)>>
                \o SubSeq(b, 2, Len(b))

\* Modulus of the chaining value of the hash.
HashSpace == ByteSize * ByteSize

\* Weight of the byte at position i in the digest, an odd number below 2^12.
HashWeight(i) == 2 * ((5 * i * i + 3 * i) % 2048) + 1

\* Sha256::digest: a fixed function from byte strings to digests of
\* BYTES_PER_FIELD_ELEMENT bytes (32 in the crate).  The digest is the length
\* and the weighted sum of the bytes modulo 2^16, from the initial value 27145;
\* the sum is the cardinality of the bag with (b + 1) * weight copies of each
\* position.
Sha256Digest(bytes) ==
    to_be_bytes((27145 + Len(bytes)
                 + BagCardinality([i \in 1..Len(bytes) |-> (bytes[i] + 1) * HashWeight(i)]))
                    % HashSpace,
                BYTES_PER_FIELD_ELEMENT)

\* buf[offset..offset + len(src)].copy_from_slice(src), offset counted from 0.
CopyFromSlice(buf, offset, src) ==
    SubSeq(buf, 1, offset) \o src \o SubSeq(buf, offset + Len(src) + 1, Len(buf))

Zeros(n) == [i \in 1..n |-> 0]

\* ------------------------------------------------------------ pairings.rs

\* The product of the Miller loops of (-a1, a2) and (b1, b2) after the final
\* exponentiation, compared with the identity of Gt.
\* pairings_verify without the negation of a1.
pairings_verify_unnegated(a1, a2, b1, b2) ==
    GtMul(pairing(a1, a2), pairing(b1, b2)) = GtIdentity

pairings_verify(a1, a2, b1, b2) ==
    GtMul(pairing(G1Neg(a1), a2), pairing(b1, b2)) = GtIdentity

\* ------------------------------------------------------- trusted_setup.rs

\* Width of usize in bits (64 in the crate).
UsizeBits == 16

RECURSIVE reverse_bits(_, _)
\* i.reverse_bits() of an integer of `width` bits.
reverse_bits(i, width) ==
    IF width = 0 THEN 0
    ELSE (i % 2) * 2 ^ (width - 1) + reverse_bits(i \div 2, width - 1)

RECURSIVE BitLength(_)
BitLength(n) == IF n = 0 THEN 0 ELSE 1 + BitLength(n \div 2)

leading_zeros(n) == UsizeBits - BitLength(n)
is_power_of_two(n) == n > 0 /\ 2 ^ (BitLength(n) - 1) = n

\* bit_reversal_permutation that copies array[i] to index i.
bit_reversal_permutation_unreversed(array, N, dflt) ==
    LET n == Len(array)
    IN IF ~is_power_of_two(n) THEN Panic("n must be a power of 2")
       ELSE IF n > N THEN Panic("index out of bounds")
       ELSE Ok([j \in 1..N |-> IF j <= n THEN array[j] ELSE dflt])

\* bit_reversal_permutation::<T, N>(array); T::default() is `dflt`.
bit_reversal_permutation(array, N, dflt) ==
    LET n == Len(array)
        unused_bit_len == leading_zeros(n)
        r(i) == reverse_bits(i, UsizeBits) \div 2 ^ (unused_bit_len + 1)
    IN IF ~is_power_of_two(n) THEN Panic("n must be a power of 2")
       ELSE IF \E i \in 0..(n - 1) : r(i) >= N THEN Panic("index out of bounds")
       ELSE Ok([j \in 1..N |->
                 IF \E i \in 0..(n - 1) : r(i) = j - 1
                 THEN array[(CHOOSE i \in 0..(n - 1) :
                               r(i) = j - 1 /\ \A k \in (i + 1)..(n - 1) : r(k) /= j - 1) + 1]
                 ELSE dflt])

RECURSIVE ExpandLoop(_, _, _, _)
\* The loop `for _ in 2..=width` of expand_root_of_unity, at iteration k.
ExpandLoop(expanded, root, k, width) ==
    IF k > width THEN expanded
    ELSE LET current == ScalarMul(expanded[Len(expanded)], root)
             next == Append(expanded, current)
         IN IF current = ScalarOne THEN next ELSE ExpandLoop(next, root, k + 1, width)

expand_root_of_unity(root, width) ==
    IF width < 2 THEN Err("BadArgs")
    ELSE LET expanded == ExpandLoop(<<ScalarOne, root>>, root, 2, width)
         IN IF expanded[Len(expanded)] /= ScalarOne
            THEN Err("InvalidBytesLength")
            ELSE Ok(expanded)

\* compute_roots_of_unity that reads the table of roots one scale too low.
compute_roots_of_unity_lower_scale(max_scale, N) ==
    IF max_scale >= Len(SCALE2_ROOT_OF_UNITY) THEN Err("BadArgs")
    ELSE LET root_of_unity == ScalarFromRaw(
                 Reverse(to_be_bytes(
                     SCALE2_ROOT_OF_UNITY[IF max_scale = 0 THEN 1 ELSE max_scale],
                     BYTES_PER_FIELD_ELEMENT)))
             expanded_roots == expand_root_of_unity(root_of_unity, N)
         IN IF ~IsOk(expanded_roots) THEN expanded_roots
            ELSE bit_reversal_permutation(
                     SubSeq(expanded_roots.val, 1, Len(expanded_roots.val) - 1),
                     N, ScalarZero)

compute_roots_of_unity(max_scale, N) ==
    IF max_scale >= Len(SCALE2_ROOT_OF_UNITY) THEN Err("BadArgs")
    ELSE LET root_of_unity == ScalarFromRaw(
                 Reverse(to_be_bytes(SCALE2_ROOT_OF_UNITY[max_scale + 1],
                                     BYTES_PER_FIELD_ELEMENT)))
             expanded_roots == expand_root_of_unity(root_of_unity, N)
         IN IF ~IsOk(expanded_roots) THEN expanded_roots
            ELSE bit_reversal_permutation(
                     SubSeq(expanded_roots.val, 1, Len(expanded_roots.val) - 1),
                     N, ScalarZero)

\* Text is a sequence of characters: 0..15 are the hex digits (0..9 the
\* decimal digits), 16 is the letter x, anything above is another character.

\* str::parse::<usize>: None for an empty string or one with a non-digit.
parse_usize(str) ==
    IF str = <<>> \/ \E i \in 1..Len(str) : str[i] \notin 0..9 THEN None
    ELSE Some(BEValue([i \in 1..Len(str) |-> str[i]] ) )

RECURSIVE join(_)
\* lines.join("").
join(lines) == IF lines = <<>> THEN <<>> ELSE lines[1] \o join(Tail(lines))

\* hex_to_bytes of lib.rs: strip_prefix("0x"), then hex::decode, which fails on
\* an odd length and on a character that is no hex digit.
hex_to_bytes(hex_str) ==
    LET trimmed_str == IF Len(hex_str) >= 2 /\ hex_str[1] = 0 /\ hex_str[2] = 16
                       THEN SubSeq(hex_str, 3, Len(hex_str))
                       ELSE hex_str
    IN IF Len(trimmed_str) % 2 = 1 \/ \E i \in 1..Len(trimmed_str) : trimmed_str[i] \notin 0..15
       THEN Err("InvalidHexFormat")
       ELSE Ok([k \in 1..(Len(trimmed_str) \div 2) |->
                   16 * trimmed_str[2 * k - 1] + trimmed_str[2 * k]])

\* bytes.chunks_exact(size).collect(): the whole chunks, the remainder dropped.
chunks_exact(bytes, size) ==
    [k \in 1..(Len(bytes) \div size) |-> SubSeq(bytes, (k - 1) * size + 1, k * size)]

\* G1Affine::from_compressed_unchecked and G2Affine::from_compressed_unchecked:
\* the decoding without the subgroup check.  Every point of the scaled curve is
\* in the subgroup, and G2 has the encoding of G1 over BYTES_PER_G2_POINT bytes.
G1FromCompressedUnchecked(bytes) == G1FromCompressed(bytes)
G2FromCompressedUnchecked(bytes) == G1FromCompressed(bytes)

is_trusted_setup_in_lagrange_form(g1_points, g2_points) ==
    LET n1 == Len(g1_points)
        n2 == Len(g2_points)
    IN IF n1 < 2 \/ n2 < 2 THEN Err("BadArgs")
       ELSE LET a1 == g1_points[2]
                a2 == g2_points[1]
                b1 == g1_points[1]
                b2 == g2_points[2]
                is_monomial_form == pairings_verify(a1, a2, b1, b2)
            IN IF ~is_monomial_form THEN Err("BadArgs") ELSE Ok(TRUE)

\* The loops `for_each(|(i, bytes)| points[i] = from_compressed_unchecked(bytes)
\* .expect(..))` into an array of `size` points that starts as identities: the
\* first chunk that is no point, or that has no place in the array, panics.
DecodeInto(chunks, size, decode, message) ==
    LET bad == {i \in 1..Len(chunks) : ~decode[i].some \/ i > size}
        first == CHOOSE i \in bad : \A j \in bad : i <= j
    IN IF bad = {}
       THEN Ok([i \in 1..size |-> IF i <= Len(chunks) THEN decode[i].v ELSE G1Identity])
       ELSE IF ~decode[first].some THEN Panic(message)
       ELSE Panic("index out of bounds")

\* load_trusted_setup_file_brute, with the text of TRUSTED_SETUP_FILE split
\* into lines as its argument.
load_trusted_setup_file_brute(trusted_setup_file) ==
    LET lines == Len(trusted_setup_file)
        num_g1_points == parse_usize(trusted_setup_file[1])
        num_g2_points == parse_usize(trusted_setup_file[2])
        g1_points_idx == num_g1_points.v + 2
        g2_points_idx == g1_points_idx + num_g2_points.v
        g1_bytes == hex_to_bytes(join(SubSeq(trusted_setup_file, 3, g1_points_idx)))
        g2_bytes == hex_to_bytes(join(SubSeq(trusted_setup_file, g1_points_idx + 1,
                                             g2_points_idx)))
        \* _g1_points and _g2_points of the source
        g1_chunks == chunks_exact(g1_bytes.val, BYTES_PER_G1_POINT)
        g2_chunks == chunks_exact(g2_bytes.val, BYTES_PER_G2_POINT)
        max_scale == CHOOSE m \in 0..UsizeBits :
                        /\ 2 ^ m >= Len(g1_chunks)
                        /\ \A k \in 0..(m - 1) : 2 ^ k < Len(g1_chunks)
        roots_of_unity == compute_roots_of_unity(max_scale, NUM_ROOTS_OF_UNITY)
        g1_points == DecodeInto(g1_chunks, NUM_G1_POINTS,
                                [i \in 1..Len(g1_chunks) |->
                                    G1FromCompressedUnchecked(g1_chunks[i])],
                                "load_trusted_setup Invalid g1 bytes")
        g2_points == DecodeInto(g2_chunks, NUM_G2_POINTS,
                                [i \in 1..Len(g2_chunks) |->
                                    G2FromCompressedUnchecked(g2_chunks[i])],
                                "load_trusted_setup Invalid g2 bytes")
        \* `let _ = is_trusted_setup_in_lagrange_form(..)`: the result is dropped
        ignored == is_trusted_setup_in_lagrange_form(g1_points.val, g2_points.val)
        bit_reversed_permutation ==
            bit_reversal_permutation(g1_points.val, NUM_G1_POINTS, G1Identity)
    IN IF lines < 1 THEN Panic("index out of bounds")
       ELSE IF ~num_g1_points.some THEN Panic("called unwrap on ParseIntError")
       ELSE IF lines < 2 THEN Panic("index out of bounds")
       ELSE IF ~num_g2_points.some THEN Panic("called unwrap on ParseIntError")
       ELSE IF g1_points_idx > lines THEN Panic("range end index out of range")
       ELSE IF ~IsOk(g1_bytes) THEN Panic("called unwrap on InvalidHexFormat")
       ELSE IF g2_points_idx > lines THEN Panic("range end index out of range")
       ELSE IF ~IsOk(g2_bytes) THEN Panic("called unwrap on InvalidHexFormat")
       ELSE IF Len(g1_chunks) /= num_g1_points.v THEN Panic("assertion failed")
       ELSE IF Len(g2_chunks) /= num_g2_points.v THEN Panic("assertion failed")
       ELSE IF ~IsOk(roots_of_unity) THEN roots_of_unity
       ELSE IF ~IsOk(g1_points) THEN g1_points
       ELSE IF ~IsOk(g2_points) THEN g2_points
       ELSE IF ~IsOk(bit_reversed_permutation) THEN bit_reversed_permutation
       ELSE Ok([roots_of_unity |-> roots_of_unity.val,
                g1_points |-> bit_reversed_permutation.val,
                g2_points |-> g2_points.val])

\* ---- the binary cache: main of build.rs writes it, get_* read it

\* size_of::<G1Affine>() and size_of::<G2Affine>() (104 and 200 in the crate):
\* the coordinates, the infinity flag, padding.
G1AffineSize == 4
G2AffineSize == 6

\* transmute::<Scalar, [u8; 32]>: the Montgomery limbs as they lie in memory.
ScalarToMemory(v) == Reverse(to_be_bytes(v, BYTES_PER_FIELD_ELEMENT))
ScalarFromMemory(bytes) == LEValue(bytes)

\* transmute::<G1Affine, [u8; 104]> and transmute::<G2Affine, [u8; 200]>: the
\* coordinates, the infinity flag and the padding bytes of the struct, whose
\* content is not defined (`padding`).
AffineToMemory(p, size, padding) ==
    Reverse(to_be_bytes(p, BYTES_PER_FIELD_ELEMENT))
        \o <<IF p = G1Identity THEN 1 ELSE 0>>
        \o [i \in 1..(size - BYTES_PER_FIELD_ELEMENT - 1) |-> padding]
AffineFromMemory(bytes) ==
    IF bytes[BYTES_PER_FIELD_ELEMENT + 1] /= 0 THEN G1Identity
    ELSE LEValue(SubSeq(bytes, 1, BYTES_PER_FIELD_ELEMENT))

\* main of build.rs: the three files written from the settings of the text
\* loader (roots_of_unity.bin, g1.bin, g2.bin).
main(trusted_setup_file, padding) ==
    LET settings == load_trusted_setup_file_brute(trusted_setup_file)
    IN IF ~IsOk(settings) THEN Panic("called unwrap on Err")
       ELSE Ok([roots_of_unity_bin |->
                    join([i \in 1..NUM_ROOTS_OF_UNITY |->
                            ScalarToMemory(settings.val.roots_of_unity[i])]),
                g1_bin |->
                    join([i \in 1..NUM_G1_POINTS |->
                            AffineToMemory(settings.val.g1_points[i], G1AffineSize, padding)]),
                g2_bin |->
                    join([i \in 1..NUM_G2_POINTS |->
                            AffineToMemory(settings.val.g2_points[i], G2AffineSize, padding)])])

\* transmute(slice::from_raw_parts(FILE.as_ptr(), len)): len elements of `size`
\* bytes from the first byte of the file on.  The memory after the last byte
\* of the file is not the file's: `beyond` is what an element read there holds.
from_raw_parts(file, len, size, beyond) ==
    [k \in 1..len |->
        [i \in 1..size |->
            IF (k - 1) * size + i <= Len(file) THEN file[(k - 1) * size + i] ELSE beyond]]

get_roots_of_unity(files, beyond) ==
    LET elements == from_raw_parts(files.roots_of_unity_bin, NUM_ROOTS_OF_UNITY,
                                   BYTES_PER_FIELD_ELEMENT, beyond)
    IN [k \in 1..Len(elements) |-> ScalarFromMemory(elements[k])]

get_g1_points(files, beyond) ==
    LET elements == from_raw_parts(files.g1_bin, NUM_G1_POINTS, G1AffineSize, beyond)
    IN [k \in 1..Len(elements) |-> AffineFromMemory(elements[k])]

\* The slice over g2.bin is taken with NUM_G1_POINTS elements.
get_g2_points(files, beyond) ==
    LET elements == from_raw_parts(files.g2_bin, NUM_G1_POINTS, G2AffineSize, beyond)
    IN [k \in 1..Len(elements) |-> AffineFromMemory(elements[k])]

\* get_kzg_settings, and KzgSettings::load_trusted_setup_file which returns it.
get_kzg_settings(files, beyond) ==
    [roots_of_unity |-> get_roots_of_unity(files, beyond),
     g1_points |-> get_g1_points(files, beyond),
     g2_points |-> get_g2_points(files, beyond)]

\* KzgSettings for the trusted setup with secret tau: the roots of unity of the
\* loader and g2_points = ([1]G2, [tau]G2) (g2_points[i] is index i + 1 here).
KzgSettings(tau) ==
    [roots_of_unity |-> compute_roots_of_unity(MaxScale, NUM_FIELD_ELEMENTS_PER_BLOB).val,
     g2_points |-> <<G2Generator, G2Mul(G2Generator, ScalarFromU64(tau))>>]

\* ------------------------------------------------------------ dtypes.rs

\* from_slice that takes the first `size` bytes of a longer slice.
from_slice_truncating(slice, size) ==
    IF Len(slice) < size THEN Err("InvalidBytesLength") ELSE Ok(SubSeq(slice, 1, size))

\* as_slice of the three types: the bytes held.
as_slice(value) == value

\* define_bytes_type!(Bytes32, 32), (Bytes48, 48), (Blob, BYTES_PER_BLOB): the
\* sizes of the three types.
BytesTypes ==
    [Bytes32 |-> BYTES_PER_FIELD_ELEMENT, Bytes48 |-> BYTES_PER_COMMITMENT,
     Blob |-> BYTES_PER_BLOB]

\* Bytes32::from_slice, Bytes48::from_slice, Blob::from_slice.
from_slice(slice, size) ==
    IF Len(slice) /= size THEN Err("InvalidBytesLength") ELSE Ok(slice)

\* ---------------------------------------------------------- kzg_proof.rs

safe_g1_affine_from_bytes(bytes) ==
    LET g1 == G1FromCompressed(bytes)
    IN IF ~g1.some THEN Err("BadArgs") ELSE Ok(g1.v)

\* safe_scalar_affine_from_bytes without the reversal of the bytes.
safe_scalar_unreversed(bytes) ==
    LET scalar == ScalarFromBytes(bytes)
    IN IF ~scalar.some THEN Err("BadArgs") ELSE Ok(scalar.v)

safe_scalar_affine_from_bytes(bytes) ==
    LET lendian == Reverse(bytes)
        scalar == ScalarFromBytes(lendian)
    IN IF ~scalar.some THEN Err("BadArgs") ELSE Ok(scalar.v)

\* slice.chunks(size): consecutive chunks, the last one possibly shorter.
chunks(slice, size) ==
    [k \in 1..((Len(slice) + size - 1) \div size) |->
        SubSeq(slice, (k - 1) * size + 1,
               IF k * size <= Len(slice) THEN k * size ELSE Len(slice))]

\* Blob::as_polynomial: every chunk parsed; collect() stops at the first error.
as_polynomial(blob) ==
    LET parsed == [k \in 1..Len(chunks(blob, BYTES_PER_FIELD_ELEMENT)) |->
                     LET b == from_slice(chunks(blob, BYTES_PER_FIELD_ELEMENT)[k],
                                         BYTES_PER_FIELD_ELEMENT)
                     IN IF IsOk(b) THEN safe_scalar_affine_from_bytes(b.val) ELSE b]
        bad == {k \in 1..Len(parsed) : ~IsOk(parsed[k])}
    IN IF bad /= {}
       THEN parsed[CHOOSE k \in bad : \A j \in bad : k <= j]
       ELSE Ok([k \in 1..Len(parsed) |-> parsed[k].val])

\* Bytes of one limb of a Scalar (8 in the crate) and of a u64.
LimbBytes == 1
U64Bytes == 8

\* scalar_from_u64_array_unchecked handing the limbs to Scalar::from_raw in the
\* order of the array (most significant first).
scalar_from_u64_array_unswapped(array) ==
    ScalarFromRaw(<<array[1], array[2]>>)

\* The modulus is subtracted on trial and the borrow dropped: the limbs go to
\* Scalar::from_raw as they are.
scalar_from_u64_array_unchecked(array) ==
    ScalarFromRaw(<<array[2], array[1]>>)

scalar_from_bytes_unchecked(bytes) ==
    scalar_from_u64_array_unchecked(
        <<BEValue(SubSeq(bytes, 1, LimbBytes)),
          BEValue(SubSeq(bytes, LimbBytes + 1, 2 * LimbBytes))>>)

\* The buffer of compute_challenge with the commitment copied one byte early,
\* over the last byte of the blob.
challenge_bytes_overlapping(blob, commitment) ==
    LET o1 == 0 + DOMAIN_STR_LENGTH
        b1 == CopyFromSlice(Zeros(CHALLENGE_INPUT_SIZE), 0, FIAT_SHAMIR_PROTOCOL_DOMAIN)
        o2 == o1 + U64Bytes
        b2 == CopyFromSlice(b1, o1, to_be_bytes(0, U64Bytes))
        o3 == o2 + U64Bytes
        b3 == CopyFromSlice(b2, o2, to_be_bytes(NUM_FIELD_ELEMENTS_PER_BLOB, U64Bytes))
        o4 == o3 + BYTES_PER_BLOB
        b4 == CopyFromSlice(b3, o3, blob)
        offset == o4 + BYTES_PER_COMMITMENT
        bytes == CopyFromSlice(b4, o4 - 1, G1ToCompressed(commitment))
    IN [bytes |-> bytes, offset |-> offset]

\* The copies of compute_challenge into its buffer: the buffer and the offset
\* after the last copy.
ChallengeBytes(blob, commitment) ==
    LET o1 == 0 + DOMAIN_STR_LENGTH
        b1 == CopyFromSlice(Zeros(CHALLENGE_INPUT_SIZE), 0, FIAT_SHAMIR_PROTOCOL_DOMAIN)
        o2 == o1 + U64Bytes
        b2 == CopyFromSlice(b1, o1, to_be_bytes(0, U64Bytes))
        o3 == o2 + U64Bytes
        b3 == CopyFromSlice(b2, o2, to_be_bytes(NUM_FIELD_ELEMENTS_PER_BLOB, U64Bytes))
        o4 == o3 + BYTES_PER_BLOB
        b4 == CopyFromSlice(b3, o3, blob)
        offset == o4 + BYTES_PER_COMMITMENT
        bytes == CopyFromSlice(b4, o4, G1ToCompressed(commitment))
    IN [bytes |-> bytes, offset |-> offset]

compute_challenge(blob, commitment) ==
    LET written == ChallengeBytes(blob, commitment)
    IN IF written.offset /= CHALLENGE_INPUT_SIZE THEN Err("InvalidBytesLength")
       ELSE Ok(scalar_from_bytes_unchecked(Sha256Digest(written.bytes)))

RECURSIVE BatchForward(_, _, _)
\* The first loop of batch_inversion from index st.i (counted from 0) on:
\* out[i] = accumulator; accumulator = accumulator * a[i].
BatchForward(a, len, st) ==
    IF st.i = len THEN st
    ELSE BatchForward(a, len,
             [i |-> st.i + 1,
              out |-> [st.out EXCEPT ![st.i + 1] = st.accumulator],
              accumulator |-> ScalarMul(st.accumulator, a[st.i + 1])])

RECURSIVE BatchBackward(_, _)
\* The second loop, the st.i indices below st.i still to do, highest first:
\* out[i] *= accumulator; accumulator *= a[i].
BatchBackward(a, st) ==
    IF st.i = 0 THEN st
    ELSE BatchBackward(a,
             [i |-> st.i - 1,
              out |-> [st.out EXCEPT ![st.i] = ScalarMul(st.out[st.i], st.accumulator)],
              accumulator |-> ScalarMul(st.accumulator, a[st.i])])

batch_inversion(out, a, len) ==
    IF a = out THEN Err("BadArgs")
    ELSE LET fwd == BatchForward(a, len, [i |-> 0, out |-> out, accumulator |-> ScalarOne])
         IN IF fwd.accumulator = ScalarZero THEN Err("BadArgs")
            ELSE Ok(BatchBackward(a, [i |-> len, out |-> fwd.out,
                                      accumulator |-> ScalarInvert(fwd.accumulator).v]).out)

RECURSIVE EvalSum(_, _, _, _)
\* out after the first i terms of the sum of inverses[i] * roots[i] * polynomial[i].
EvalSum(inverses, roots, polynomial, i) ==
    IF i = 0 THEN ScalarZero
    ELSE ScalarAdd(EvalSum(inverses, roots, polynomial, i - 1),
                   ScalarMul(ScalarMul(inverses[i], roots[i]), polynomial[i]))

\* BarycentricEvaluation whose sum leaves out the factor roots_of_unity[i].
barycentric_without_roots(polynomial, x, roots_of_unity, inverses_in) ==
    LET N == NUM_FIELD_ELEMENTS_PER_BLOB
        inverses == batch_inversion([i \in 1..N |-> ScalarZero], inverses_in, N)
    IN IF ~IsOk(inverses) THEN inverses
       ELSE LET sum == EvalSum(inverses.val, [i \in 1..N |-> ScalarOne], polynomial, N)
                byN == ScalarMul(sum, ScalarInvert(ScalarFromU64(N)).v)
            IN Ok(ScalarMul(byN, ScalarSub(ScalarPow(x, N), ScalarOne)))

\* The part of evaluate_polynomial_in_evaluation_form after its first loop: the
\* batch inversion of inverses_in and the barycentric sum.
BarycentricEvaluation(polynomial, x, roots_of_unity, inverses_in) ==
    LET N == NUM_FIELD_ELEMENTS_PER_BLOB
        inverses == batch_inversion([i \in 1..N |-> ScalarZero], inverses_in, N)
    IN IF ~IsOk(inverses) THEN inverses
       ELSE LET sum == EvalSum(inverses.val, roots_of_unity, polynomial, N)
                byN == ScalarMul(sum, ScalarInvert(ScalarFromU64(N)).v)
            IN Ok(ScalarMul(byN, ScalarSub(ScalarPow(x, N), ScalarOne)))

\* evaluate_polynomial_in_evaluation_form whose first loop only fills
\* inverses_in, without the return at a root of unity.
evaluate_without_root_return(polynomial, x, kzg_settings) ==
    IF Len(polynomial) /= NUM_FIELD_ELEMENTS_PER_BLOB THEN Err("InvalidBytesLength")
    ELSE BarycentricEvaluation(
             polynomial, x, kzg_settings.roots_of_unity,
             [i \in 1..NUM_FIELD_ELEMENTS_PER_BLOB |->
                 ScalarSub(x, kzg_settings.roots_of_unity[i])])

evaluate_polynomial_in_evaluation_form(polynomial, x, kzg_settings) ==
    IF Len(polynomial) /= NUM_FIELD_ELEMENTS_PER_BLOB THEN Err("InvalidBytesLength")
    ELSE LET roots_of_unity == kzg_settings.roots_of_unity
             N == NUM_FIELD_ELEMENTS_PER_BLOB
             hits == {i \in 1..N : x = roots_of_unity[i]}
         IN IF hits /= {}
            THEN Ok(polynomial[CHOOSE i \in hits : \A j \in hits : i <= j])
            ELSE BarycentricEvaluation(
                     polynomial, x, roots_of_unity,
                     [i \in 1..N |-> ScalarSub(x, roots_of_unity[i])])

\* The number of calls of Scalar::invert that
\* evaluate_polynomial_in_evaluation_form makes on its path: none before the
\* first loop has ended, one in batch_inversion once the product is known to
\* be non-zero, one for the inverse of NUM_FIELD_ELEMENTS_PER_BLOB.
evaluate_inversions(polynomial, x, kzg_settings) ==
    LET N == NUM_FIELD_ELEMENTS_PER_BLOB
        roots_of_unity == kzg_settings.roots_of_unity
        inverses_in == [i \in 1..N |-> ScalarSub(x, roots_of_unity[i])]
    IN IF Len(polynomial) /= N THEN 0
       ELSE IF \E i \in 1..N : x = roots_of_unity[i] THEN 0
       ELSE IF IsOk(batch_inversion([i \in 1..N |-> ScalarZero], inverses_in, N)) THEN 2
       ELSE 0

\* verify_kzg_proof_impl with the evaluation added to the commitment instead
\* of subtracted.
verify_kzg_proof_impl_added(commitment, z, y, proof, kzg_settings) ==
    LET x == G2Mul(G2Generator, z)
        x_minus_z == G2Sub(kzg_settings.g2_points[2], x)
        g1_y == G1Mul(G1Generator, y)
        p_plus_y == G1Add(commitment, g1_y)
    IN Ok(pairings_verify(p_plus_y, G2Generator, proof, x_minus_z))

verify_kzg_proof_impl(commitment, z, y, proof, kzg_settings) ==
    LET x == G2Mul(G2Generator, z)
        x_minus_z == G2Sub(kzg_settings.g2_points[2], x)
        g1_y == G1Mul(G1Generator, y)
        p_minus_y == G1Sub(commitment, g1_y)
    IN Ok(pairings_verify(p_minus_y, G2Generator, proof, x_minus_z))

\* KzgProof::verify_kzg_proof.
verify_kzg_proof(commitment_bytes, z_bytes, y_bytes, proof_bytes, kzg_settings) ==
    LET z == safe_scalar_affine_from_bytes(z_bytes)
        y == safe_scalar_affine_from_bytes(y_bytes)
        commitment == safe_g1_affine_from_bytes(commitment_bytes)
        proof == safe_g1_affine_from_bytes(proof_bytes)
    IN IF ~IsOk(z) THEN z
       ELSE IF ~IsOk(y) THEN y
       ELSE IF ~IsOk(commitment) THEN commitment
       ELSE IF ~IsOk(proof) THEN proof
       ELSE LET g2_x == G2Mul(G2Generator, z.val)
                x_minus_z == G2Sub(kzg_settings.g2_points[2], g2_x)
                g1_y == G1Mul(G1Generator, y.val)
                p_minus_y == G1Sub(commitment.val, g1_y)
            IN Ok(pairings_verify(p_minus_y, G2Generator, proof.val, x_minus_z))

\* verify_kzg_proof of lib.rs: a bool, false on every parse failure.
lib_verify_kzg_proof(commitment_bytes, z_bytes, y_bytes, proof_bytes, kzg_settings) ==
    LET z == safe_scalar_affine_from_bytes(z_bytes)
        y == safe_scalar_affine_from_bytes(y_bytes)
        commitment == safe_g1_affine_from_bytes(commitment_bytes)
        proof == safe_g1_affine_from_bytes(proof_bytes)
    IN IF ~IsOk(z) THEN FALSE
       ELSE IF ~IsOk(y) THEN FALSE
       ELSE IF ~IsOk(commitment) THEN FALSE
       ELSE IF ~IsOk(proof) THEN FALSE
       ELSE LET g2_x == G2Mul(G2Generator, z.val)
                x_minus_z == G2Sub(kzg_settings.g2_points[2], g2_x)
                g1_y == G1Mul(G1Generator, y.val)
                p_minus_y == G1Sub(commitment.val, g1_y)
            IN pairing(p_minus_y, G2Generator) = pairing(proof.val, x_minus_z)

\* KzgProof::verify_blob_kzg_proof.
verify_blob_kzg_proof(blob, commitment_bytes, proof_bytes, kzg_settings) ==
    LET commitment == safe_g1_affine_from_bytes(commitment_bytes)
        polynomial == as_polynomial(blob)
        proof == safe_g1_affine_from_bytes(proof_bytes)
    IN IF ~IsOk(commitment) THEN commitment
       ELSE IF ~IsOk(polynomial) THEN Err(polynomial.err)
       ELSE IF ~IsOk(proof) THEN proof
       ELSE LET evaluation_challenge == compute_challenge(blob, commitment.val)
            IN IF ~IsOk(evaluation_challenge) THEN Err(evaluation_challenge.err)
               ELSE LET y == evaluate_polynomial_in_evaluation_form(
                                 polynomial.val, evaluation_challenge.val, kzg_settings)
                    IN IF ~IsOk(y) THEN Err(y.err)
                       ELSE verify_kzg_proof_impl(commitment.val, evaluation_challenge.val,
                                                  y.val, proof.val, kzg_settings)

\* ------------------------------------------------------------------ msm.rs

log2(x) == IF x <= 1 THEN 0 ELSE UsizeBits - leading_zeros(x)

ln_without_floats(a) == (log2(a) * 69) \div 100

\* Bits of the scalar field's modulus (255 in the crate).
num_bits == 15

\* divn(x, n): zero for n >= 256 (the bits of a Scalar); else x times the field
\* inverse of n, unwrapped.
divn(x, n) ==
    IF n >= ScalarBits THEN Ok(ScalarFromU64(0))
    ELSE LET inv == ScalarInvert(ScalarFromU64(n))
         IN IF ~inv.some THEN Panic("called unwrap on a None value")
            ELSE Ok(ScalarMul(inv.v, x))

Min(a, b) == IF a <= b THEN a ELSE b

RECURSIVE WindowFill(_, _, _, _, _)
\* res and buckets of the window at w_start after the first i (scalar, base)
\* pairs of scalars.iter().zip(points), or the panic that ended the window.
WindowFill(points, scalars, w_start, c, i) ==
    IF i = 0
    THEN [tag |-> "Ok", res |-> G1Identity, buckets |-> [k \in 1..(2 ^ c - 1) |-> G1Identity]]
    ELSE LET st == WindowFill(points, scalars, w_start, c, i - 1)
             scalar == scalars[i]
             base == points[i]
         IN IF st.tag /= "Ok" THEN st
            ELSE IF scalar = ScalarZero THEN st
            ELSE IF scalar = ScalarOne
                 THEN IF w_start = 0
                      THEN [st EXCEPT !.res = G1Add(st.res, base)]
                      ELSE st
            ELSE LET reduced == montgomery_reduce(scalar)
                     shifted == divn(reduced, w_start)
                 IN IF ~IsOk(shifted)
                    THEN [tag |-> "Panic", res |-> G1Identity, buckets |-> <<>>]
                    ELSE LET slice == (shifted.val % (ByteSize ^ LimbBytes)) % (2 ^ c)
                         IN IF slice /= 0
                            THEN [st EXCEPT !.buckets[slice] = G1Add(st.buckets[slice], base)]
                            ELSE st

RECURSIVE BucketLoop(_, _)
\* `for b in buckets.into_iter().rev()`, the buckets st.k, st.k - 1, .. still to
\* take: running_sum += b; res += running_sum.
BucketLoop(buckets, st) ==
    IF st.k = 0 THEN st
    ELSE BucketLoop(buckets,
             [k |-> st.k - 1,
              running_sum |-> G1Add(st.running_sum, buckets[st.k]),
              res |-> G1Add(st.res, G1Add(st.running_sum, buckets[st.k]))])

\* One element of window_sums.
WindowSum(points, scalars, w_start, c) ==
    LET st == WindowFill(points, scalars, w_start, c, Min(Len(scalars), Len(points)))
    IN IF st.tag /= "Ok" THEN Panic("called unwrap on a None value")
       ELSE Ok(BucketLoop(st.buckets, [k |-> Len(st.buckets),
                                       running_sum |-> G1Identity,
                                       res |-> st.res]).res)

RECURSIVE Doublings(_, _)
Doublings(p, c) == IF c = 0 THEN p ELSE Doublings(G1Double(p), c - 1)

RECURSIVE FoldWindows(_, _, _)
\* The fold over window_sums[1..], reversed: the windows st.k, st.k - 1, .. 2
\* still to take.
FoldWindows(window_sums, c, st) ==
    IF st.k < 2 THEN st.total
    ELSE FoldWindows(window_sums, c,
             [k |-> st.k - 1,
              total |-> Doublings(G1Add(st.total, window_sums[st.k]), c)])

\* The window size c of msm_variable_base for scalars.len() = len.
WindowSize(len) == IF len < 32 THEN 3 ELSE ln_without_floats(len) + 2

msm_variable_base(points, scalars) ==
    LET c == WindowSize(Len(scalars))
        window_starts == [k \in 1..((num_bits + c - 1) \div c) |-> (k - 1) * c]
        sums == [k \in 1..Len(window_starts) |->
                   WindowSum(points, scalars, window_starts[k], c)]
    IN IF \E k \in 1..Len(sums) : ~IsOk(sums[k])
       THEN Panic("called unwrap on a None value")
       ELSE LET window_sums == [k \in 1..Len(sums) |-> sums[k].val]
                lowest == window_sums[1]
            IN Ok(G1Add(FoldWindows(window_sums, c,
                                    [k |-> Len(window_sums), total |-> G1Identity]),
                        lowest))

\* ------------------------------------------------ kzg_proof.rs, batch path

is_identity(p) == p = G1Identity
\* Every decoded point is a point of the curve.
is_on_curve(p) == p \in 0..(MODULUS - 1)

validate_batched_input(commitment, proofs) ==
    LET invalid_commitment ==
            \E i \in 1..Len(commitment) :
                ~is_identity(commitment[i]) /\ ~is_on_curve(commitment[i])
        invalid_proof ==
            \E i \in 1..Len(proofs) : ~is_identity(proofs[i]) /\ ~is_on_curve(proofs[i])
    IN IF invalid_commitment THEN Err("BadArgs")
       ELSE IF invalid_proof THEN Err("BadArgs")
       ELSE Ok(TRUE)

\* iter().map(f).collect::<Result<Vec<_>, _>>(): the first error, else the values.
CollectResults(rs) ==
    LET bad == {k \in 1..Len(rs) : ~IsOk(rs[k])}
    IN IF bad /= {} THEN rs[CHOOSE k \in bad : \A j \in bad : k <= j]
       ELSE Ok([k \in 1..Len(rs) |-> rs[k].val])

\* Ok(<<evaluation_challenges, ys>>), or the first error of the loop.
compute_challenges_and_evaluate_polynomial(blobs, commitment, kzg_settings) ==
    LET step(i) ==
            LET polynomial == as_polynomial(blobs[i])
            IN IF ~IsOk(polynomial) THEN Err(polynomial.err)
               ELSE LET evaluation_challenge == compute_challenge(blobs[i], commitment[i])
                    IN IF ~IsOk(evaluation_challenge) THEN Err(evaluation_challenge.err)
                       ELSE LET y == evaluate_polynomial_in_evaluation_form(
                                         polynomial.val, evaluation_challenge.val,
                                         kzg_settings)
                            IN IF ~IsOk(y) THEN Err(y.err)
                               ELSE Ok(<<evaluation_challenge.val, y.val>>)
        all == CollectResults([i \in 1..Len(blobs) |-> step(i)])
    IN IF ~IsOk(all) THEN all
       ELSE Ok(<<[i \in 1..Len(blobs) |-> all.val[i][1]],
                 [i \in 1..Len(blobs) |-> all.val[i][2]]>>)

RECURSIVE PowersLoop(_, _, _)
\* for i in 1..num_powers: powers[i] = powers[i - 1] * base.
PowersLoop(base, num_powers, st) ==
    IF st.i >= num_powers THEN st.powers
    ELSE PowersLoop(base, num_powers,
             [i |-> st.i + 1,
              powers |-> [st.powers EXCEPT ![st.i + 1] = ScalarMul(st.powers[st.i], base)]])

compute_powers(base, num_powers) ==
    LET powers == [i \in 1..num_powers |-> ScalarZero]
    IN IF num_powers = 0 THEN powers
       ELSE PowersLoop(base, num_powers,
                       [i |-> 1, powers |-> [powers EXCEPT ![1] = ScalarOne]])

\* vec.resize(len, 0).
resize(v, len) == [i \in 1..len |-> IF i <= Len(v) THEN v[i] ELSE 0]

RECURSIVE RPowersFill(_, _, _, _, _)
\* The loop of compute_r_powers from index st.i (counted from 0) on.
RPowersFill(commitment, zs, ys, proofs, st) ==
    IF st.i = Len(commitment) THEN st
    ELSE LET i == st.i + 1
             o1 == st.offset + BYTES_PER_COMMITMENT
             b1 == CopyFromSlice(st.bytes, st.offset, G1ToCompressed(commitment[i]))
             o2 == o1 + BYTES_PER_FIELD_ELEMENT
             b2 == CopyFromSlice(b1, o1, ScalarToBytes(zs[i]))
             o3 == o2 + BYTES_PER_FIELD_ELEMENT
             b3 == CopyFromSlice(b2, o2, ScalarToBytes(ys[i]))
             o4 == o3 + BYTES_PER_PROOF
             b4 == CopyFromSlice(b3, o3, G1ToCompressed(proofs[i]))
         IN RPowersFill(commitment, zs, ys, proofs,
                        [i |-> i, bytes |-> b4, offset |-> o4])

\* size_of::<usize>() of the target the crate is built for: 8 bytes, or 4 on
\* a 32-bit target.  (UsizeBits above is a scaled width for the bit
\* operations, whose results do not depend on it.)
UsizeWidths == {4, 8}
\* The width of the build that runs, a part of the arguments of the state.
SizeOfUsize == args.usize_bytes

\* The copies of compute_r_powers into its buffer: the buffer, the offset after
\* the last copy and the size the buffer was given.
RPowersBytes(commitment, zs, ys, proofs) ==
    LET n == Len(commitment)
        input_size ==
            32 + n * (BYTES_PER_COMMITMENT + 2 * BYTES_PER_FIELD_ELEMENT + BYTES_PER_PROOF)
        b1 == CopyFromSlice(Zeros(input_size), 0, RANDOM_CHALLENGE_KZG_BATCH_DOMAIN)
        b2 == CopyFromSlice(b1, 16, to_be_bytes(NUM_FIELD_ELEMENTS_PER_BLOB, U64Bytes))
        n_bytes == resize(to_be_bytes(n, SizeOfUsize), 8)
        b3 == CopyFromSlice(b2, 24, n_bytes)
        st == RPowersFill(commitment, zs, ys, proofs, [i |-> 0, bytes |-> b3, offset |-> 32])
    IN [bytes |-> st.bytes, offset |-> st.offset, input_size |-> input_size]

compute_r_powers(commitment, zs, ys, proofs) ==
    LET n == Len(commitment)
        written == RPowersBytes(commitment, zs, ys, proofs)
    IN IF written.offset /= written.input_size THEN Err("InvalidBytesLength")
       ELSE LET r == scalar_from_bytes_unchecked(Sha256Digest(written.bytes))
            IN Ok(compute_powers(r, n))

RECURSIVE LinearCombination(_, _, _)
\* The sum of scalars[i] * points[i] over the pairs st.i + 1 .. of the two lists.
LinearCombination(points, scalars, st) ==
    IF st.i = Min(Len(points), Len(scalars)) THEN st.sum
    ELSE LinearCombination(points, scalars,
             [i |-> st.i + 1,
              sum |-> G1Add(st.sum, G1Mul(points[st.i + 1], scalars[st.i + 1]))])

\* G1Projective::msm_variable_base, the associated function of the bls12_381
\* crate that verify_kzg_proof_batch calls (the free function of msm.rs is
\* not the one a path through the type G1Projective names).
G1ProjectiveMsmVariableBase(points, scalars) ==
    LinearCombination(points, scalars, [i |-> 0, sum |-> G1Identity])

\* verify_kzg_proof_batch whose right-hand side leaves out the combination of
\* the proofs weighted by r^i * z_i.
verify_kzg_proof_batch_without_z(commitments, zs, ys, proofs, kzg_settings) ==
    LET n == Len(commitments)
        r_powers == compute_r_powers(commitments, zs, ys, proofs)
    IN IF ~IsOk(r_powers) THEN Err(r_powers.err)
       ELSE LET proof_lincomb == G1ProjectiveMsmVariableBase(proofs, r_powers.val)
                c_minus_y == [i \in 1..n |->
                                G1Sub(commitments[i], G1Mul(G1Generator, ys[i]))]
                rhs_g1 == G1ProjectiveMsmVariableBase(c_minus_y, r_powers.val)
            IN Ok(pairings_verify(proof_lincomb, kzg_settings.g2_points[2],
                                  rhs_g1, G2Generator))

\* KzgProof::verify_kzg_proof_batch.
verify_kzg_proof_batch(commitments, zs, ys, proofs, kzg_settings) ==
    LET n == Len(commitments)
        r_powers == compute_r_powers(commitments, zs, ys, proofs)
    IN IF ~IsOk(r_powers) THEN Err(r_powers.err)
       ELSE LET proof_lincomb == G1ProjectiveMsmVariableBase(proofs, r_powers.val)
                c_minus_y == [i \in 1..n |->
                                G1Sub(commitments[i], G1Mul(G1Generator, ys[i]))]
                r_times_z == [i \in 1..n |-> ScalarMul(r_powers.val[i], zs[i])]
                proof_z_lincomb == G1ProjectiveMsmVariableBase(proofs, r_times_z)
                c_minus_y_lincomb == G1ProjectiveMsmVariableBase(c_minus_y, r_powers.val)
                rhs_g1 == G1Add(c_minus_y_lincomb, proof_z_lincomb)
            IN Ok(pairings_verify(proof_lincomb, kzg_settings.g2_points[2],
                                  rhs_g1, G2Generator))

\* KzgProof::verify_blob_kzg_proof_batch after its two fast paths.
BatchAfterFastPaths(blobs, commitments_bytes, proofs_bytes, kzg_settings) ==
    IF Len(blobs) /= Len(commitments_bytes) THEN Err("InvalidBytesLength")
    ELSE IF Len(blobs) /= Len(proofs_bytes) THEN Err("InvalidBytesLength")
    ELSE LET commitments ==
                 CollectResults([i \in 1..Len(commitments_bytes) |->
                                   safe_g1_affine_from_bytes(commitments_bytes[i])])
             proofs ==
                 CollectResults([i \in 1..Len(proofs_bytes) |->
                                   safe_g1_affine_from_bytes(proofs_bytes[i])])
         IN IF ~IsOk(commitments) THEN Err(commitments.err)
            ELSE IF ~IsOk(proofs) THEN Err(proofs.err)
            ELSE IF ~IsOk(validate_batched_input(commitments.val, proofs.val))
                 THEN validate_batched_input(commitments.val, proofs.val)
            ELSE LET zy == compute_challenges_and_evaluate_polynomial(
                               blobs, commitments.val, kzg_settings)
                 IN IF ~IsOk(zy) THEN Err(zy.err)
                    ELSE verify_kzg_proof_batch(commitments.val, zy.val[1], zy.val[2],
                                                proofs.val, kzg_settings)

\* blobs[0], commitments_bytes[0], proofs_bytes[0] handed to the single check;
\* indexing an empty Vec panics.
BatchOfOne(blobs, commitments_bytes, proofs_bytes, kzg_settings) ==
    IF Len(commitments_bytes) = 0 \/ Len(proofs_bytes) = 0
    THEN Panic("index out of bounds")
    ELSE verify_blob_kzg_proof(blobs[1], commitments_bytes[1], proofs_bytes[1],
                               kzg_settings)

\* verify_blob_kzg_proof_batch whose second fast path hands the proof where
\* the commitment goes and the commitment where the proof goes.
batch_of_one_swapped(blobs, commitments_bytes, proofs_bytes, kzg_settings) ==
    IF Len(blobs) = 0 THEN Ok(TRUE)
    ELSE IF Len(blobs) = 1
    THEN BatchOfOne(blobs, proofs_bytes, commitments_bytes, kzg_settings)
    ELSE BatchAfterFastPaths(blobs, commitments_bytes, proofs_bytes, kzg_settings)

\* verify_blob_kzg_proof_batch whose first fast path rejects.
batch_rejects_empty(blobs, commitments_bytes, proofs_bytes, kzg_settings) ==
    IF Len(blobs) = 0 THEN Ok(FALSE)
    ELSE IF Len(blobs) = 1
    THEN BatchOfOne(blobs, commitments_bytes, proofs_bytes, kzg_settings)
    ELSE BatchAfterFastPaths(blobs, commitments_bytes, proofs_bytes, kzg_settings)

\* KzgProof::verify_blob_kzg_proof_batch.
verify_blob_kzg_proof_batch(blobs, commitments_bytes, proofs_bytes, kzg_settings) ==
    IF Len(blobs) = 0 THEN Ok(TRUE)
    ELSE IF Len(blobs) = 1
    THEN BatchOfOne(blobs, commitments_bytes, proofs_bytes, kzg_settings)
    ELSE BatchAfterFastPaths(blobs, commitments_bytes, proofs_bytes, kzg_settings)

\* ------------------------------------------------------------------ inputs

\* Secrets of the trusted setups the verifiers are run with.
Taus == {3, 1000}

\* Canonical values of the points (discrete logarithms) and scalars tried.
PointValues == {0, 1, 5, MODULUS - 1}
ScalarValues == {0, 1, 3, MODULUS - 1}

\* 48-byte strings that are no compressed point: compression flag unset,
\* infinity with the sort flag, infinity with x /= 0, x of no point.
MalformedPoints == {<<0, 0, 1>>, <<224, 0, 0>>, <<192, 0, 1>>, <<128, 255, 255>>}
\* 32-byte strings that are no canonical scalar: r itself and 2^16 - 1.
NonCanonicalScalars == {to_be_bytes(MODULUS, BYTES_PER_FIELD_ELEMENT), <<255, 255>>}

ScalarBytes(v) == to_be_bytes(v, BYTES_PER_FIELD_ELEMENT)

\* The proof of the opening (c, z, y) under tau: [(c - y) / (tau - z)]G1, and
\* the point 5 when tau = z.
OpeningProof(c, z, y, tau) ==
    LET d == ScalarInvert(ToMont((tau + MODULUS - z) % MODULUS))
    IN IF ~d.some THEN 5
       ELSE (((c + MODULUS - y) % MODULUS) * montgomery_reduce(d.v)) % MODULUS

\* The blob whose field elements are elems, repeated up to the blob's length.
BlobOf(elems) ==
    [k \in 1..BYTES_PER_BLOB |->
        ScalarBytes(elems[(((k - 1) \div BYTES_PER_FIELD_ELEMENT) % Len(elems)) + 1])
            [((k - 1) % BYTES_PER_FIELD_ELEMENT) + 1]]

\* Well-formed blobs; with the generator as commitment, the challenge of the
\* third and of the fourth is a root of unity.
CanonicalBlobs ==
    {BlobOf(<<7>>), BlobOf(<<1, 2, 3, 4>>), BlobOf(<<28, 6, 19, 1>>), BlobOf(<<11, 14, 14, 1>>)}
\* Blobs with one non-canonical element, the first or the last one.
NonCanonicalBlobs ==
    {BlobOf(<<MODULUS, 2, 3, 4>>),
     [BlobOf(<<1, 2, 3, 4>>) EXCEPT ![BYTES_PER_BLOB - 1] = 255, ![BYTES_PER_BLOB] = 255]}

\* [p(tau)]G1 for the polynomial p of a well-formed blob.
BlobCommitment(blob, tau) ==
    G1Mul(G1Generator,
          evaluate_polynomial_in_evaluation_form(
              as_polynomial(blob).val, ToMont(tau), KzgSettings(tau)).val)

\* The proof that makes (blob, commitment c) open at its own challenge, where
\* the polynomial has a value.
BlobProof(blob, c, tau) ==
    LET z == compute_challenge(blob, c).val
        y == evaluate_polynomial_in_evaluation_form(as_polynomial(blob).val, z, KzgSettings(tau))
    IN IF IsOk(y) THEN OpeningProof(c, montgomery_reduce(z), montgomery_reduce(y.val), tau)
       ELSE G1Identity

CommitmentChoices == {G1ToCompressed(c) : c \in PointValues} \cup {<<0, 0, 1>>, <<224, 0, 0>>}
ScalarChoices == {ScalarBytes(v) : v \in ScalarValues} \cup NonCanonicalScalars

\* Proofs tried for an opening: malformed ones, two fixed points, and the proof
\* of the opening when there is one.
ProofChoices(cb, zb, yb, tau) ==
    {<<0, 0, 1>>, <<128, 255, 255>>, G1ToCompressed(0), G1ToCompressed(1)}
    \cup (IF G1FromCompressed(cb).some /\ ScalarFromBytes(Reverse(zb)).some
             /\ ScalarFromBytes(Reverse(yb)).some
          THEN {G1ToCompressed(OpeningProof(
                   G1FromCompressed(cb).v, BEValue(zb), BEValue(yb), tau))}
          ELSE {})

KzgInputs(tau) ==
    UNION { { [commitment_bytes |-> t[1], z_bytes |-> t[2], y_bytes |-> t[3],
               proof_bytes |-> pb] : pb \in ProofChoices(t[1], t[2], t[3], tau) } :
            t \in CommitmentChoices \X ScalarChoices \X ScalarChoices }

\* Commitments tried for a blob: the generator, a malformed point, and the
\* commitment to the blob's polynomial when the blob is well-formed.
BlobCommitmentChoices(b, tau) ==
    {G1ToCompressed(1), <<224, 0, 0>>}
    \cup (IF b \in CanonicalBlobs THEN {G1ToCompressed(BlobCommitment(b, tau))} ELSE {})

BlobProofChoices(b, cb, tau) ==
    {<<0, 0, 1>>, G1ToCompressed(0), G1ToCompressed(5)}
    \cup (IF G1FromCompressed(cb).some /\ b \in CanonicalBlobs
          THEN {G1ToCompressed(BlobProof(b, G1FromCompressed(cb).v, tau))}
          ELSE {})

BlobInputs(tau) ==
    UNION { UNION { { [blob |-> b, commitment_bytes |-> cb, proof_bytes |-> pb] :
                      pb \in BlobProofChoices(b, cb, tau) } :
                    cb \in BlobCommitmentChoices(b, tau) } :
            b \in CanonicalBlobs \cup NonCanonicalBlobs }

\* (blob, commitment, proof) triples that batches are made of: accepted ones,
\* a rejected one, one with a malformed commitment, one with a malformed blob.
Triples(tau) ==
    UNION { { [blob |-> b, commitment_bytes |-> G1ToCompressed(c),
                 proof_bytes |-> G1ToCompressed(BlobProof(b, c, tau))] :
                c \in {BlobCommitment(b, tau)} } :
            b \in {BlobOf(<<7>>), BlobOf(<<1, 2, 3, 4>>)} }
    \cup { [blob |-> BlobOf(<<28, 6, 19, 1>>), commitment_bytes |-> G1ToCompressed(1),
            proof_bytes |-> G1ToCompressed(BlobProof(BlobOf(<<28, 6, 19, 1>>), 1, tau))],
           [blob |-> BlobOf(<<1, 2, 3, 4>>), commitment_bytes |-> G1ToCompressed(1),
            proof_bytes |-> G1ToCompressed(5)],
           [blob |-> BlobOf(<<7>>), commitment_bytes |-> <<224, 0, 0>>,
            proof_bytes |-> G1ToCompressed(0)],
           [blob |-> BlobOf(<<MODULUS, 2, 3, 4>>), commitment_bytes |-> G1ToCompressed(1),
            proof_bytes |-> G1ToCompressed(0)] }

\* Batches: every list of at most MaxBatch triples, and, for every combination
\* of the three lengths, the lists that repeat one triple.
BatchInputs(tau) ==
    UNION { { [blobs |-> [i \in 1..n |-> ts[i].blob],
               commitments_bytes |-> [i \in 1..n |-> ts[i].commitment_bytes],
               proofs_bytes |-> [i \in 1..n |-> ts[i].proof_bytes]] :
              ts \in [1..n -> Triples(tau)] } : n \in 0..MaxBatch }
    \cup { [blobs |-> [i \in 1..l[1] |-> t.blob],
            commitments_bytes |-> [i \in 1..l[2] |-> t.commitment_bytes],
            proofs_bytes |-> [i \in 1..l[3] |-> t.proof_bytes]] :
           l \in (0..MaxBatch) \X (0..MaxBatch) \X (0..MaxBatch), t \in Triples(tau) }

MsmPoints == {0, 1, 5}
MsmScalars == {ToMont(v) : v \in {0, 1, 2, 9, MODULUS - 1}}
MsmInputs ==
    UNION { [1..n -> MsmPoints] \X [1..n -> MsmScalars] : n \in 0..MaxMsm }

PairingInputs == {0, 1, 2, 6} \X {0, 1, 3} \X {0, 1, 2, 6} \X {0, 1, 3}

\* 32-byte strings handed to safe_scalar_affine_from_bytes: around 0, r, 2r, 2^16.
ScalarInputs ==
    {ScalarBytes(v) : v \in {0, 1, 255, 256, MODULUS - 1, MODULUS, MODULUS + 1,
                             2 * MODULUS - 1, 2 * MODULUS, 2 * MODULUS + 1,
                             ByteSize * ByteSize - 1}}

\* Arguments of evaluate_polynomial_in_evaluation_form: the settings of the
\* loader and settings whose second root repeats the first (KzgSettings is
\* built from any slices, see EnvKzgSettings::Custom); polynomials of
\* NUM_FIELD_ELEMENTS_PER_BLOB scalars and one that is too short; x among the
\* roots and off them.
EvaluateSettings ==
    {KzgSettings(3),
     [KzgSettings(3) EXCEPT !.roots_of_unity[2] = KzgSettings(3).roots_of_unity[1]]}

PolynomialChoices ==
    {[i \in 1..NUM_FIELD_ELEMENTS_PER_BLOB |-> ToMont((a * i + b) % MODULUS)] :
        a \in {0, 1, 7}, b \in {0, 3, MODULUS - 1}}
    \cup {[i \in 1..NUM_FIELD_ELEMENTS_PER_BLOB |-> IF i = k THEN ScalarOne ELSE ScalarZero] :
            k \in 1..NUM_FIELD_ELEMENTS_PER_BLOB}
    \cup {[i \in 1..(NUM_FIELD_ELEMENTS_PER_BLOB - 1) |-> ScalarOne]}

XChoices(s) ==
    {s.roots_of_unity[i] : i \in 1..NUM_FIELD_ELEMENTS_PER_BLOB}
    \cup {ToMont(v) : v \in {0, 2, 5, 1000}}

\* Digests given to scalar_from_bytes_unchecked: the values around 0, r, 2 r
\* and the largest one, and a spread of others.
DigestValues ==
    {0, 1, MODULUS - 1, MODULUS, MODULUS + 1, 2 * MODULUS - 1, 2 * MODULUS,
     2 * MODULUS + 1, HashSpace - 1}
    \cup {(k * 1021) % HashSpace : k \in 1..64}

\* Texts of a trusted setup, as lines of characters.
DecLine(n) == IF n < 10 THEN <<n>> ELSE <<n \div 10, n % 10>>
HexLine(bytes) == join([i \in 1..Len(bytes) |-> <<bytes[i] \div 16, bytes[i] % 16>>])

\* G2Affine::to_compressed (the encoding of G1 over BYTES_PER_G2_POINT bytes).
G2ToCompressed(p) ==
    LET c == G1ToCompressed(p)
    IN <<c[1]>> \o Zeros(BYTES_PER_G2_POINT - BYTES_PER_G1_POINT) \o Tail(c)

SetupText(num_g1, num_g2, g1s, g2s) ==
    <<DecLine(num_g1), DecLine(num_g2)>>
        \o [i \in 1..Len(g1s) |-> HexLine(G1ToCompressed(g1s[i]))]
        \o [i \in 1..Len(g2s) |-> HexLine(G2ToCompressed(g2s[i]))]

\* The powers of tau in monomial form, and G1 points that are no such powers
\* (as the Lagrange form of a setup).
RECURSIVE MonomialPoints(_, _)
MonomialPoints(tau, n) ==
    IF n = 1 THEN <<1>>
    ELSE LET powers == MonomialPoints(tau, n - 1)
         IN Append(powers, (powers[n - 1] * tau) % MODULUS)
LagrangePoints(n) == [i \in 1..n |-> 5 * i + 2]

\* A line with a character that is no hex digit, a line of odd length, and the
\* hex of bytes that are no compressed point (compression flag unset).
BadHexLine == <<8, 0, 17, 0, 0, 1>>
OddHexLine == <<8, 0, 0, 0, 1>>

SetupTexts ==
    LET G1N == NUM_G1_POINTS
        G2N == NUM_G2_POINTS
        WellFormed ==
            UNION {{SetupText(n1, n2, MonomialPoints(tau, n1), MonomialPoints(tau, n2)),
                    SetupText(n1, n2, LagrangePoints(n1), MonomialPoints(tau, n2))} :
                      n1 \in {2, 3, G1N, G1N + 1}, n2 \in {1, 2, G2N, G2N + 1},
                      tau \in Taus}
        honest == SetupText(G1N, G2N, MonomialPoints(3, G1N), MonomialPoints(3, G2N))
    IN WellFormed
       \cup {SetupText(G1N + 1, G2N, MonomialPoints(3, G1N), MonomialPoints(3, G2N)),
             SetupText(G1N, G2N + 1, MonomialPoints(3, G1N), MonomialPoints(3, G2N)),
             SetupText(G1N - 1, G2N, MonomialPoints(3, G1N), MonomialPoints(3, G2N)),
             [honest EXCEPT ![1] = <<17>>],
             [honest EXCEPT ![2] = <<>>],
             [honest EXCEPT ![3] = <<0, 16>> \o honest[3]],
             [honest EXCEPT ![4] = BadHexLine],
             [honest EXCEPT ![4] = OddHexLine],
             [honest EXCEPT ![2 + G1N + 1] = BadHexLine],
             [honest EXCEPT ![4] = HexLine(<<0, 0, 1>>)],
             [honest EXCEPT ![2 + G1N + 2] = HexLine(<<0, 0, 0, 0, 0, 1>>)],
             <<DecLine(G1N)>>}

\* Slices given to from_slice: every length up to one more than a blob.
SliceChoices ==
    {[i \in 1..len |-> (7 * i + c) % ByteSize] : len \in 0..(BYTES_PER_BLOB + 1), c \in {0, 250}}

\* Arguments of compute_challenge: a Blob and a G1Affine.
ChallengeInputs == (CanonicalBlobs \cup NonCanonicalBlobs) \X PointValues

\* Arguments of compute_r_powers: four lists of one length n <= MaxBatch; the
\* challenge of the last one is 0 when n is written as a u64.
RPowersInputs ==
    UNION { { [commitment |-> cs, zs |-> [i \in 1..n |-> ToMont(3 * i)],
               ys |-> [i \in 1..n |-> ToMont(i + 4)], proofs |-> ps] :
              cs \in [1..n -> {0, 5}], ps \in [1..n -> {1, MODULUS - 1}] } :
            n \in 0..MaxBatch }
    \cup { [commitment |-> <<1, 1>>, zs |-> <<4586, ToMont(4)>>,
            ys |-> <<ToMont(5), ToMont(6)>>, proofs |-> <<3, 2>>] }

\* ----------------------------------------------------------- state machine

VARIABLES
    kzg_settings,       \* the KzgSettings the verifiers are given
    entry,              \* which group of entry points the inputs are for
    commitment_bytes, z_bytes, y_bytes, proof_bytes,    \* Bytes48 / Bytes32 arguments
    blob,               \* Blob argument
    blobs, commitments_bytes, proofs_bytes,             \* arguments of the batch call
    points, scalars,    \* arguments of msm_variable_base
    pair,               \* <<a1, a2, b1, b2>> of pairings_verify
    DEFAULT,            \* the static OnceBox of EnvKzgSettings::get: Null or a box
    heap,               \* the boxes of KzgSettings that are allocated and not dropped
    threads,            \* the threads that call EnvKzgSettings::get
    pc,                 \* "call" before the entry point has run, "done" after
    op,                 \* the entry point that has run
    result              \* what it returned

vars == <<kzg_settings, entry, commitment_bytes, z_bytes, y_bytes, proof_bytes, blob,
          blobs, commitments_bytes, proofs_bytes, points, scalars, pair, args, DEFAULT, heap,
          threads, pc, op, result>>

inputs == <<kzg_settings, entry, commitment_bytes, z_bytes, y_bytes, proof_bytes, blob,
            blobs, commitments_bytes, proofs_bytes, points, scalars, pair, args>>

env == <<DEFAULT, heap, threads>>

\* A plain bool, as returned by verify_kzg_proof of lib.rs.
Bool(b) == [tag |-> "Bool", val |-> b, err |-> "Bool"]

NoBytes == <<>>
NoArgs == <<>>
\* A value returned by a function that returns no Result.
Value(v) == [tag |-> "Value", val |-> v, err |-> "Value"]

\* The null pointer of an empty OnceBox.
Null == <<"null", 0, 0>>

InitCommon ==
    /\ pc = "call"
    /\ op = "none"
    /\ result = Err("none")

\* No thread calls EnvKzgSettings::get.
NoThreads ==
    /\ DEFAULT = Null
    /\ heap = {}
    /\ threads = <<>>

InitKzg ==
    \E tau \in Taus : \E i \in KzgInputs(tau) :
        /\ kzg_settings = KzgSettings(tau)
        /\ entry = "kzg"
        /\ commitment_bytes = i.commitment_bytes
        /\ z_bytes = i.z_bytes
        /\ y_bytes = i.y_bytes
        /\ proof_bytes = i.proof_bytes
        /\ blob = NoBytes /\ blobs = <<>> /\ commitments_bytes = <<>> /\ proofs_bytes = <<>>
        /\ points = <<>> /\ scalars = <<>> /\ pair = <<>>

InitBlob ==
    \E tau \in Taus : \E i \in BlobInputs(tau) :
        /\ kzg_settings = KzgSettings(tau)
        /\ entry = "blob"
        /\ commitment_bytes = i.commitment_bytes
        /\ proof_bytes = i.proof_bytes
        /\ blob = i.blob
        /\ z_bytes = NoBytes /\ y_bytes = NoBytes
        /\ blobs = <<>> /\ commitments_bytes = <<>> /\ proofs_bytes = <<>>
        /\ points = <<>> /\ scalars = <<>> /\ pair = <<>>

InitBatch ==
    \E tau \in Taus : \E i \in BatchInputs(tau) :
        /\ kzg_settings = KzgSettings(tau)
        /\ entry = "batch"
        /\ blobs = i.blobs
        /\ commitments_bytes = i.commitments_bytes
        /\ proofs_bytes = i.proofs_bytes
        /\ commitment_bytes = NoBytes /\ proof_bytes = NoBytes
        /\ z_bytes = NoBytes /\ y_bytes = NoBytes /\ blob = NoBytes
        /\ points = <<>> /\ scalars = <<>> /\ pair = <<>>

InitMsm ==
    \E i \in MsmInputs :
        /\ kzg_settings = KzgSettings(3)
        /\ entry = "msm"
        /\ points = i[1]
        /\ scalars = i[2]
        /\ commitment_bytes = NoBytes /\ proof_bytes = NoBytes
        /\ z_bytes = NoBytes /\ y_bytes = NoBytes /\ blob = NoBytes
        /\ blobs = <<>> /\ commitments_bytes = <<>> /\ proofs_bytes = <<>> /\ pair = <<>>

InitPairing ==
    \E i \in PairingInputs :
        /\ kzg_settings = KzgSettings(3)
        /\ entry = "pairing"
        /\ pair = i
        /\ commitment_bytes = NoBytes /\ proof_bytes = NoBytes
        /\ z_bytes = NoBytes /\ y_bytes = NoBytes /\ blob = NoBytes
        /\ blobs = <<>> /\ commitments_bytes = <<>> /\ proofs_bytes = <<>>
        /\ points = <<>> /\ scalars = <<>>

InitScalar ==
    \E b \in ScalarInputs :
        /\ kzg_settings = KzgSettings(3)
        /\ entry = "scalar"
        /\ z_bytes = b
        /\ commitment_bytes = NoBytes /\ proof_bytes = NoBytes
        /\ y_bytes = NoBytes /\ blob = NoBytes
        /\ blobs = <<>> /\ commitments_bytes = <<>> /\ proofs_bytes = <<>>
        /\ points = <<>> /\ scalars = <<>> /\ pair = <<>>

\* The variables of the verifier entry points, unused by the other functions.
NoVerifierInputs ==
    /\ commitment_bytes = NoBytes /\ proof_bytes = NoBytes
    /\ z_bytes = NoBytes /\ y_bytes = NoBytes /\ blob = NoBytes
    /\ blobs = <<>> /\ commitments_bytes = <<>> /\ proofs_bytes = <<>>
    /\ points = <<>> /\ scalars = <<>> /\ pair = <<>>

InitEvaluate ==
    \E s \in EvaluateSettings : \E p \in PolynomialChoices : \E x \in XChoices(s) :
        /\ kzg_settings = s
        /\ entry = "evaluate"
        /\ args = [polynomial |-> p, x |-> x]
        /\ NoVerifierInputs

InitDigest ==
    \E v \in DigestValues :
        /\ kzg_settings = KzgSettings(3)
        /\ entry = "digest"
        /\ args = [bytes |-> to_be_bytes(v, BYTES_PER_FIELD_ELEMENT)]
        /\ NoVerifierInputs

InitSetup ==
    \E text \in SetupTexts :
        /\ kzg_settings = KzgSettings(3)
        /\ entry = "setup"
        /\ args = [trusted_setup_file |-> text]
        /\ NoVerifierInputs

InitRoots ==
    \E max_scale \in 0..Len(SCALE2_ROOT_OF_UNITY) :
        /\ kzg_settings = KzgSettings(3)
        /\ entry = "roots"
        /\ args = [max_scale |-> max_scale]
        /\ NoVerifierInputs

\* The cache is built from a text the loader accepts.
InitCache ==
    \E text \in SetupTexts : \E padding, beyond \in {0, ByteSize - 1} :
        /\ IsOk(load_trusted_setup_file_brute(text))
        /\ kzg_settings = KzgSettings(3)
        /\ entry = "cache"
        /\ args = [trusted_setup_file |-> text, padding |-> padding, beyond |-> beyond]
        /\ NoVerifierInputs

InitSlice ==
    \E type \in DOMAIN BytesTypes : \E slice \in SliceChoices :
        /\ kzg_settings = KzgSettings(3)
        /\ entry = "slice"
        /\ args = [type |-> type, slice |-> slice]
        /\ NoVerifierInputs

InitChallenge ==
    \E pair_in \in ChallengeInputs :
        /\ kzg_settings = KzgSettings(3)
        /\ entry = "challenge"
        /\ args = [blob |-> pair_in[1], commitment |-> pair_in[2]]
        /\ NoVerifierInputs

InitRPowers ==
    \E i \in RPowersInputs : \E w \in UsizeWidths :
        /\ kzg_settings = KzgSettings(3)
        /\ entry = "r_powers"
        /\ args = [commitment |-> i.commitment, zs |-> i.zs, ys |-> i.ys,
                   proofs |-> i.proofs, usize_bytes |-> w]
        /\ NoVerifierInputs

\* Roots of the table of compute_roots_of_unity and a scalar that is no root
\* of unity of small order, with widths around the orders of the roots.
InitExpand ==
    \E k \in 1..Len(SCALE2_ROOT_OF_UNITY) : \E root \in {SCALE2_ROOT_OF_UNITY[k], 3} :
        \E width \in 0..(2 * NUM_ROOTS_OF_UNITY) :
            /\ kzg_settings = KzgSettings(3)
            /\ entry = "expand"
            /\ args = [root |-> ToMont(root), width |-> width]
            /\ NoVerifierInputs

\* Arrays of n elements, all different or of two values, for an output of N.
InitPermutation ==
    \E N \in {2, NUM_FIELD_ELEMENTS_PER_BLOB, 2 * NUM_FIELD_ELEMENTS_PER_BLOB} :
        \E n \in {2, 3, NUM_FIELD_ELEMENTS_PER_BLOB, 2 * NUM_FIELD_ELEMENTS_PER_BLOB} :
            \E m \in {2, 3, 2 * NUM_FIELD_ELEMENTS_PER_BLOB + 1} :
                /\ kzg_settings = KzgSettings(3)
                /\ entry = "permutation"
                /\ args = [array |-> [i \in 1..n |-> 1 + ((7 * i) % m)], N |-> N]
                /\ NoVerifierInputs

\* Sources of two or three scalars, with and without a zero, and destinations
\* that hold zeros, other scalars, or the scalars of the source.
InitInversion ==
    \E n \in 2..3 : \E a \in [1..n -> {ToMont(v) : v \in {0, 2, 5}}] :
        \E out \in {[i \in 1..n |-> ScalarZero], [i \in 1..n |-> ToMont(7)], a} :
            \E len \in 1..n :
                /\ kzg_settings = KzgSettings(3)
                /\ entry = "inversion"
                /\ args = [out |-> out, a |-> a, len |-> len]
                /\ NoVerifierInputs

InitWindow ==
    \E n \in 0..MaxScalars :
        /\ kzg_settings = KzgSettings(3)
        /\ entry = "window"
        /\ args = [n |-> n]
        /\ NoVerifierInputs

Init ==
    /\ InitCommon
    /\ NoThreads
    /\ \/ /\ InitKzg \/ InitBlob \/ InitMsm \/ InitPairing \/ InitScalar
          /\ args = NoArgs
       \/ /\ InitBatch
          /\ \E w \in UsizeWidths : args = [usize_bytes |-> w]
       \/ InitEvaluate
       \/ InitDigest
       \/ InitSetup
       \/ InitRoots
       \/ InitCache
       \/ InitSlice
       \/ InitChallenge
       \/ InitRPowers
       \/ InitExpand
       \/ InitPermutation
       \/ InitInversion
       \/ InitWindow

Return(name, r) ==
    /\ pc = "call"
    /\ pc' = "done"
    /\ op' = name
    /\ result' = r
    /\ UNCHANGED <<inputs, env>>

VerifyKzgProof ==
    /\ entry = "kzg"
    /\ Return("KzgProof::verify_kzg_proof",
              verify_kzg_proof(commitment_bytes, z_bytes, y_bytes, proof_bytes,
                               kzg_settings))

LibVerifyKzgProof ==
    /\ entry = "kzg"
    /\ Return("verify_kzg_proof",
              Bool(lib_verify_kzg_proof(commitment_bytes, z_bytes, y_bytes, proof_bytes,
                                        kzg_settings)))

VerifyBlobKzgProof ==
    /\ entry = "blob"
    /\ Return("KzgProof::verify_blob_kzg_proof",
              verify_blob_kzg_proof(blob, commitment_bytes, proof_bytes, kzg_settings))

AsPolynomial ==
    /\ entry = "blob"
    /\ Return("Blob::as_polynomial", as_polynomial(blob))

VerifyBlobKzgProofBatch ==
    /\ entry = "batch"
    /\ Return("KzgProof::verify_blob_kzg_proof_batch",
              verify_blob_kzg_proof_batch(blobs, commitments_bytes, proofs_bytes,
                                          kzg_settings))

MsmVariableBase ==
    /\ entry = "msm"
    /\ Return("msm_variable_base", msm_variable_base(points, scalars))

PairingsVerify ==
    /\ entry = "pairing"
    /\ Return("pairings_verify",
              Bool(pairings_verify(pair[1], pair[2], pair[3], pair[4])))

SafeScalarAffineFromBytes ==
    /\ entry = "scalar"
    /\ Return("safe_scalar_affine_from_bytes", safe_scalar_affine_from_bytes(z_bytes))

EvaluatePolynomialInEvaluationForm ==
    /\ entry = "evaluate"
    /\ Return("evaluate_polynomial_in_evaluation_form",
              evaluate_polynomial_in_evaluation_form(args.polynomial, args.x,
                                                     kzg_settings))

ScalarFromBytesUnchecked ==
    /\ entry = "digest"
    /\ Return("scalar_from_bytes_unchecked",
              Value(scalar_from_bytes_unchecked(args.bytes)))

LoadTrustedSetupFileBrute ==
    /\ entry = "setup"
    /\ Return("load_trusted_setup_file_brute",
              load_trusted_setup_file_brute(args.trusted_setup_file))

ComputeRootsOfUnity ==
    /\ entry = "roots"
    /\ Return("compute_roots_of_unity",
              compute_roots_of_unity(args.max_scale, NUM_ROOTS_OF_UNITY))

LoadTrustedSetupFile ==
    /\ entry = "cache"
    /\ Return("KzgSettings::load_trusted_setup_file",
              Ok(get_kzg_settings(main(args.trusted_setup_file, args.padding).val,
                                  args.beyond)))

FromSlice ==
    /\ entry = "slice"
    /\ Return("from_slice", from_slice(args.slice, BytesTypes[args.type]))

ComputeChallenge ==
    /\ entry = "challenge"
    /\ Return("compute_challenge", compute_challenge(args.blob, args.commitment))

ComputeRPowers ==
    /\ entry = "r_powers"
    /\ Return("compute_r_powers",
              compute_r_powers(args.commitment, args.zs, args.ys, args.proofs))

ExpandRootOfUnity ==
    /\ entry = "expand"
    /\ Return("expand_root_of_unity", expand_root_of_unity(args.root, args.width))

BitReversalPermutation ==
    /\ entry = "permutation"
    /\ Return("bit_reversal_permutation", bit_reversal_permutation(args.array, args.N, 0))

BatchInversion ==
    /\ entry = "inversion"
    /\ Return("batch_inversion", batch_inversion(args.out, args.a, args.len))

Log2 ==
    /\ entry = "window"
    /\ Return("log2", Value(log2(args.n)))

\* The first statement of msm_variable_base, for args.n scalars.
MsmWindowSize ==
    /\ entry = "window"
    /\ Return("msm_variable_base: c", Value(WindowSize(args.n)))

Next ==
    \/ VerifyKzgProof
    \/ LibVerifyKzgProof
    \/ VerifyBlobKzgProof
    \/ AsPolynomial
    \/ VerifyBlobKzgProofBatch
    \/ MsmVariableBase
    \/ PairingsVerify
    \/ SafeScalarAffineFromBytes
    \/ EvaluatePolynomialInEvaluationForm
    \/ ScalarFromBytesUnchecked
    \/ LoadTrustedSetupFileBrute
    \/ ComputeRootsOfUnity
    \/ LoadTrustedSetupFile
    \/ FromSlice
    \/ ComputeChallenge
    \/ ComputeRPowers
    \/ ExpandRootOfUnity
    \/ BitReversalPermutation
    \/ BatchInversion
    \/ Log2
    \/ MsmWindowSize

Spec == Init /\ [][Next]_vars

\* ------------------------------------------------ EnvKzgSettings::get

\* The settings of EnvKzgSettings::Custom(Arc<KzgSettings>), by their address.
CustomSettings == {<<"custom", 1, 0>>, <<"custom", 2, 0>>}
\* `self` of a thread that holds EnvKzgSettings::Default.
Default == <<"Default", 0, 0>>

\* AtomicPtr::store in the place of the compare_exchange: the pointer is
\* written whatever the cell holds.
exchange_unconditionally(inner, current, new) ==
    [inner |-> new, result |-> Ok(current)]

\* AtomicPtr::compare_exchange(current, new) on a cell that holds `inner`: the
\* cell afterwards, and Ok(previous) or Err(actual).
compare_exchange(inner, current, new) ==
    IF inner = current THEN [inner |-> new, result |-> Ok(current)]
    ELSE [inner |-> inner, result |-> Err(inner)]

\* Each thread holds an EnvKzgSettings (`self`: Default or the settings of a
\* Custom) and calls get() on it up to MaxCalls times.
EnvInit ==
    /\ InitCommon
    /\ kzg_settings = KzgSettings(3)
    /\ entry = "env"
    /\ args = NoArgs
    /\ NoVerifierInputs
    /\ DEFAULT = Null
    /\ heap = {}
    /\ \E selves \in [1..MaxThreads -> {Default} \cup CustomSettings] :
          threads = [t \in 1..MaxThreads |->
                        [self |-> selves[t], at |-> "call", ptr |-> Null, calls |-> 0,
                         returned |-> {}]]

\* get() on Default, OnceBox::get_or_init: the load of the cell.
GetLoad(t) ==
    /\ threads[t].at = "call" /\ threads[t].calls < MaxCalls
    /\ threads[t].self = Default
    /\ threads' = [threads EXCEPT ![t].ptr = DEFAULT,
                                  ![t].at = IF DEFAULT = Null THEN "init" ELSE "return"]
    /\ UNCHANGED <<DEFAULT, heap, inputs, pc, op, result>>

\* The initialiser: Box::new(KzgSettings::load_trusted_setup_file().expect(..)).
GetInit(t) ==
    /\ threads[t].at = "init"
    /\ LET box == <<"box", t, threads[t].calls>>
       IN /\ heap' = heap \cup {box}
          /\ threads' = [threads EXCEPT ![t].ptr = box, ![t].at = "exchange"]
    /\ UNCHANGED <<DEFAULT, inputs, pc, op, result>>

\* compare_exchange(null, ptr); the loser drops its box and takes the winner's.
GetCompareExchange(t) ==
    /\ threads[t].at = "exchange"
    /\ LET exchange == compare_exchange(DEFAULT, Null, threads[t].ptr)
       IN /\ DEFAULT' = exchange.inner
          /\ IF IsOk(exchange.result)
             THEN /\ heap' = heap
                  /\ threads' = [threads EXCEPT ![t].at = "return"]
             ELSE /\ heap' = heap \ {threads[t].ptr}
                  /\ threads' = [threads EXCEPT ![t].ptr = exchange.result.err,
                                                ![t].at = "return"]
    /\ UNCHANGED <<inputs, pc, op, result>>

\* get() returns &*ptr.
GetReturn(t) ==
    /\ threads[t].at = "return"
    /\ threads' = [threads EXCEPT ![t].returned = @ \cup {threads[t].ptr},
                                  ![t].calls = @ + 1,
                                  ![t].ptr = Null,
                                  ![t].at = "call"]
    /\ UNCHANGED <<DEFAULT, heap, inputs, pc, op, result>>

\* get() on Custom(settings) returns the settings.
GetCustom(t) ==
    /\ threads[t].at = "call" /\ threads[t].calls < MaxCalls
    /\ threads[t].self \in CustomSettings
    /\ threads' = [threads EXCEPT ![t].returned = @ \cup {threads[t].self},
                                  ![t].calls = @ + 1]
    /\ UNCHANGED <<DEFAULT, heap, inputs, pc, op, result>>

EnvNext ==
    \E t \in 1..MaxThreads :
        \/ GetLoad(t)
        \/ GetInit(t)
        \/ GetCompareExchange(t)
        \/ GetReturn(t)
        \/ GetCustom(t)

EnvSpec == EnvInit /\ [][EnvNext]_vars

\* ------------------------------------------------------------------ claims

Done(name) == pc = "done" /\ op = name

\* The byte strings that decode: a point of G1, a canonical scalar, a blob of
\* canonical field elements.
PointOk(bytes) == G1FromCompressed(bytes).some
ScalarCanonical(bytes) == BEValue(bytes) < MODULUS
BlobElement(b, k) ==
    SubSeq(b, (k - 1) * BYTES_PER_FIELD_ELEMENT + 1, k * BYTES_PER_FIELD_ELEMENT)
BlobCanonical(b) ==
    \A k \in 1..NUM_FIELD_ELEMENTS_PER_BLOB : ScalarCanonical(BlobElement(b, k))

\* e(C - [y]G1, G2) = e(P, [tau]G2 - [z]G2), on decoded values.
PairingIdentity(C, z, y, P, tauG2) ==
    pairing(G1Sub(C, G1Mul(G1Generator, y)), G2Generator)
        = pairing(P, G2Sub(tauG2, G2Mul(G2Generator, z)))

\* C1: for valid points C, P and canonical z, y, KzgProof::verify_kzg_proof
\* returns Ok(true) exactly when e(C - [y]G1, G2) = e(P, [tau]G2 - [z]G2) and
\* Ok(false) otherwise; pairings_verify(a1, a2, b1, b2) is true exactly when
\* e(a1, a2) = e(b1, b2), the identity point included.
C1_VerifyIsPairingIdentity ==
    /\ (Done("KzgProof::verify_kzg_proof")
          /\ PointOk(commitment_bytes) /\ PointOk(proof_bytes)
          /\ ScalarCanonical(z_bytes) /\ ScalarCanonical(y_bytes))
        => result = Ok(PairingIdentity(G1FromCompressed(commitment_bytes).v,
                                       ToMont(BEValue(z_bytes)), ToMont(BEValue(y_bytes)),
                                       G1FromCompressed(proof_bytes).v,
                                       kzg_settings.g2_points[2]))
    /\ Done("pairings_verify")
        => result.val = (pairing(pair[1], pair[2]) = pairing(pair[3], pair[4]))

\* An accepted opening of a commitment other than the identity, at y /= 0.
C1_Witness ==
    /\ Done("KzgProof::verify_kzg_proof")
    /\ result = Ok(TRUE)
    /\ PointOk(commitment_bytes) /\ G1FromCompressed(commitment_bytes).v /= G1Identity
    /\ BEValue(y_bytes) /= 0

MalformedOpening ==
    \/ ~PointOk(commitment_bytes) \/ ~PointOk(proof_bytes)
    \/ ~ScalarCanonical(z_bytes) \/ ~ScalarCanonical(y_bytes)

\* C2: whenever the commitment or the proof is no valid point, or z or y is not
\* canonical, every public verify_kzg_proof (the one of KzgProof and the one of
\* lib.rs) ends with the error BadArgs, never with false.
C2_MalformedIsBadArgs ==
    ((Done("KzgProof::verify_kzg_proof") \/ Done("verify_kzg_proof")) /\ MalformedOpening)
        => IsErr(result, "BadArgs")

\* The challenge of the blob under the commitment, as verify_blob_kzg_proof
\* derives it.
BlobChallenge == compute_challenge(blob, G1FromCompressed(commitment_bytes).v).val

WellFormedBlobCall ==
    /\ Done("KzgProof::verify_blob_kzg_proof")
    /\ PointOk(commitment_bytes) /\ PointOk(proof_bytes) /\ BlobCanonical(blob)

\* C3: for well-formed input (points that decode, canonical z, y, canonical
\* blob elements) verify_kzg_proof and verify_blob_kzg_proof return Ok(true) or
\* Ok(false), never an error: no internal error branch is reached.
C3_WellFormedNeverErrs ==
    /\ (Done("KzgProof::verify_kzg_proof") /\ ~MalformedOpening)
        => result \in {Ok(TRUE), Ok(FALSE)}
    /\ WellFormedBlobCall => result \in {Ok(TRUE), Ok(FALSE)}

\* A well-formed blob call whose challenge is a root of unity.
C3_Witness ==
    /\ WellFormedBlobCall
    /\ \E i \in 1..NUM_FIELD_ELEMENTS_PER_BLOB : kzg_settings.roots_of_unity[i] = BlobChallenge
    /\ IsOk(result)

\* C4: safe_scalar_affine_from_bytes returns the scalar v when the big-endian
\* value v of the bytes is below r and Err(BadArgs) when v >= r; as_polynomial
\* fails with BadArgs when any chunk of the blob is not canonical, and returns
\* the values of the chunks otherwise.
C4_CanonicalScalarsOnly ==
    /\ Done("safe_scalar_affine_from_bytes")
        => IF BEValue(z_bytes) < MODULUS
           THEN IsOk(result) /\ montgomery_reduce(result.val) = BEValue(z_bytes)
           ELSE result = Err("BadArgs")
    /\ Done("Blob::as_polynomial")
        => IF BlobCanonical(blob)
           THEN /\ IsOk(result)
                /\ Len(result.val) = NUM_FIELD_ELEMENTS_PER_BLOB
                /\ \A k \in 1..NUM_FIELD_ELEMENTS_PER_BLOB :
                       montgomery_reduce(result.val[k]) = BEValue(BlobElement(blob, k))
           ELSE result = Err("BadArgs")

\* The bytes that denote r itself are rejected.
C4_Witness ==
    /\ Done("safe_scalar_affine_from_bytes")
    /\ BEValue(z_bytes) = MODULUS
    /\ result = Err("BadArgs")

\* The 32-byte big-endian encoding of a scalar.
BigEndian(scalar) == Reverse(ScalarToBytes(scalar))

\* C5: for well-formed input verify_blob_kzg_proof(blob, C, P) equals
\* KzgProof::verify_kzg_proof on C, the big-endian bytes of z = the challenge
\* of (blob, C) and of y = the polynomial's value at z, and P.
C5_BlobCheckIsOpeningCheck ==
    WellFormedBlobCall
        => LET z == BlobChallenge
               y == evaluate_polynomial_in_evaluation_form(
                        as_polynomial(blob).val, z, kzg_settings)
           IN /\ IsOk(y)
              /\ result = verify_kzg_proof(commitment_bytes, BigEndian(z),
                                           BigEndian(y.val), proof_bytes, kzg_settings)

\* An accepted blob whose polynomial has a value other than 0 at the challenge.
C5_Witness ==
    /\ WellFormedBlobCall
    /\ result = Ok(TRUE)
    /\ evaluate_polynomial_in_evaluation_form(
           as_polynomial(blob).val, BlobChallenge, kzg_settings).val /= ScalarZero

BatchDone == Done("KzgProof::verify_blob_kzg_proof_batch")

\* What verify_blob_kzg_proof returns on the i-th triple of the batch.
Single(i) ==
    verify_blob_kzg_proof(blobs[i], commitments_bytes[i], proofs_bytes[i], kzg_settings)

\* C6: verify_blob_kzg_proof_batch on one blob, one commitment and one proof
\* returns what verify_blob_kzg_proof returns on them: the same Ok(true),
\* Ok(false) or error.
C6_BatchOfOneIsSingle ==
    (BatchDone /\ Len(blobs) = 1 /\ Len(commitments_bytes) = 1 /\ Len(proofs_bytes) = 1)
        => result = Single(1)

\* A batch of one accepted triple.
C6_Witness ==
    /\ BatchDone
    /\ Len(blobs) = 1 /\ Len(commitments_bytes) = 1 /\ Len(proofs_bytes) = 1
    /\ result = Ok(TRUE)

\* C7: whenever blobs, commitments and proofs do not all have the same length,
\* verify_blob_kzg_proof_batch returns Err(InvalidBytesLength), for every
\* combination of lengths, blobs of 0 or 1 elements included, and does not
\* abort.
C7_MismatchIsInvalidBytesLength ==
    (BatchDone /\ ~(Len(blobs) = Len(commitments_bytes) /\ Len(blobs) = Len(proofs_bytes)))
        => result = Err("InvalidBytesLength")

\* C8: verify_blob_kzg_proof_batch on no blobs, no commitments and no proofs
\* returns Ok(true), for any settings.
C8_EmptyBatchAccepted ==
    (BatchDone /\ blobs = <<>> /\ commitments_bytes = <<>> /\ proofs_bytes = <<>>)
        => result = Ok(TRUE)

\* The empty batch has been verified.
C8_Witness ==
    BatchDone /\ blobs = <<>> /\ commitments_bytes = <<>> /\ proofs_bytes = <<>>

\* A batch of n >= 2 triples, each accepted on its own.
AcceptedBatch ==
    /\ Len(blobs) >= 2
    /\ Len(commitments_bytes) = Len(blobs) /\ Len(proofs_bytes) = Len(blobs)
    /\ \A i \in 1..Len(blobs) : Single(i) = Ok(TRUE)

\* Challenges r the combined identity is tried with besides the transcript's.
BatchChallenges == {ToMont(v) : v \in {0, 1, 2, 77, MODULUS - 1}}

\* e(sum r^i P_i, [tau]G2) = e(sum r^i (C_i - [y_i]G1) + sum r^i z_i P_i, G2)
\* for the triples of the batch, the sums taken by the multi-scalar
\* multiplication.
CombinedIdentity(r) ==
    LET n == Len(blobs)
        Cs == [i \in 1..n |-> G1FromCompressed(commitments_bytes[i]).v]
        Ps == [i \in 1..n |-> G1FromCompressed(proofs_bytes[i]).v]
        zs == [i \in 1..n |-> compute_challenge(blobs[i], Cs[i]).val]
        ys == [i \in 1..n |-> evaluate_polynomial_in_evaluation_form(
                                   as_polynomial(blobs[i]).val, zs[i], kzg_settings).val]
        r_powers == compute_powers(r, n)
        c_minus_y == [i \in 1..n |-> G1Sub(Cs[i], G1Mul(G1Generator, ys[i]))]
        r_times_z == [i \in 1..n |-> ScalarMul(r_powers[i], zs[i])]
    IN pairing(G1ProjectiveMsmVariableBase(Ps, r_powers), kzg_settings.g2_points[2])
         = pairing(G1Add(G1ProjectiveMsmVariableBase(c_minus_y, r_powers),
                         G1ProjectiveMsmVariableBase(Ps, r_times_z)),
                   G2Generator)

\* C9: if each of n >= 2 well-formed triples is accepted on its own by
\* verify_blob_kzg_proof, verify_blob_kzg_proof_batch on the list returns
\* Ok(true); and the combined pairing identity of verify_kzg_proof_batch holds
\* for every challenge r.
C9_BatchCompleteness ==
    (BatchDone /\ AcceptedBatch)
        => /\ result = Ok(TRUE)
           /\ \A r \in BatchChallenges : CombinedIdentity(r)

\* A batch of two different accepted triples has been verified.
C9_Witness ==
    /\ BatchDone /\ AcceptedBatch
    /\ blobs[1] /= blobs[2]
    /\ result = Ok(TRUE)

RECURSIVE ScalarMultiples(_, _, _)
\* The sum of scalars[i] * points[i] over i <= n.
ScalarMultiples(ps, ss, n) ==
    IF n = 0 THEN G1Identity
    ELSE G1Add(ScalarMultiples(ps, ss, n - 1), G1Mul(ps[n], ss[n]))

\* C10: msm_variable_base(points, scalars) returns the sum of
\* scalars[i] * points[i] for equal-length inputs (the identity for n = 0), and
\* completes without aborting for every scalar value.
C10_MsmIsLinearCombination ==
    (Done("msm_variable_base") /\ Len(points) = Len(scalars))
        => result = Ok(ScalarMultiples(points, scalars, Len(points)))

\* ---- evaluate_polynomial_in_evaluation_form

EvaluateDone ==
    /\ Done("evaluate_polynomial_in_evaluation_form")
    /\ Len(args.polynomial) = NUM_FIELD_ELEMENTS_PER_BLOB

RootsDistinct(roots) ==
    \A i, j \in 1..NUM_FIELD_ELEMENTS_PER_BLOB : i /= j => roots[i] /= roots[j]

IsRoot(x, roots) == \E i \in 1..NUM_FIELD_ELEMENTS_PER_BLOB : x = roots[i]

\* C11: for every polynomial p of NUM_FIELD_ELEMENTS_PER_BLOB elements and every
\* index i, evaluating p at roots_of_unity[i] returns Ok(p[i]) and calls no
\* inversion, provided the roots of unity of the settings are pairwise distinct.
C11_EvaluateAtRootIsElement ==
    EvaluateDone /\ RootsDistinct(kzg_settings.roots_of_unity)
        => \A i \in 1..NUM_FIELD_ELEMENTS_PER_BLOB :
              args.x = kzg_settings.roots_of_unity[i]
                  => /\ result = Ok(args.polynomial[i])
                     /\ evaluate_inversions(args.polynomial, args.x, kzg_settings) = 0

\* The evaluation at the third root of a polynomial whose third element is not
\* its first.
C11_Witness ==
    /\ EvaluateDone /\ RootsDistinct(kzg_settings.roots_of_unity)
    /\ args.x = kzg_settings.roots_of_unity[3]
    /\ args.polynomial[3] /= args.polynomial[1]
    /\ result = Ok(args.polynomial[3])

RECURSIVE BarycentricSum(_, _, _, _)
\* Sum over i <= n of p[i] * w[i] / (x - w[i]), every quotient by its own inversion.
BarycentricSum(p, x, w, n) ==
    IF n = 0 THEN ScalarZero
    ELSE ScalarAdd(BarycentricSum(p, x, w, n - 1),
                   ScalarMul(ScalarMul(p[n], w[n]),
                             ScalarInvert(ScalarSub(x, w[n])).v))

\* ((x^N - 1) / N) * sum over i < N of p[i] * w_i / (x - w_i).
BarycentricFormula(p, x, w) ==
    LET N == NUM_FIELD_ELEMENTS_PER_BLOB
    IN ScalarMul(ScalarMul(ScalarSub(ScalarPow(x, N), ScalarOne),
                           ScalarInvert(ScalarFromU64(N)).v),
                 BarycentricSum(p, x, w, N))

RECURSIVE LagrangeBasis(_, _, _, _)
\* Product over j <= n, j /= i, of (x - w[j]) / (w[i] - w[j]).
LagrangeBasis(x, w, i, n) ==
    IF n = 0 THEN ScalarOne
    ELSE IF n = i THEN LagrangeBasis(x, w, i, n - 1)
    ELSE ScalarMul(LagrangeBasis(x, w, i, n - 1),
                   ScalarMul(ScalarSub(x, w[n]),
                             ScalarInvert(ScalarSub(w[i], w[n])).v))

RECURSIVE LagrangeValue(_, _, _, _)
\* The value at x of the polynomial of degree < N that takes the value p[i] at
\* w[i] for every i (Lagrange interpolation), summed over i <= n.
LagrangeValue(p, x, w, n) ==
    IF n = 0 THEN ScalarZero
    ELSE ScalarAdd(LagrangeValue(p, x, w, n - 1),
                   ScalarMul(p[n], LagrangeBasis(x, w, n, NUM_FIELD_ELEMENTS_PER_BLOB)))

\* p or the roots in the other indexing (the bit-reversal permutation is its
\* own inverse).
Reindexed(a) == bit_reversal_permutation(a, NUM_FIELD_ELEMENTS_PER_BLOB, ScalarZero).val

\* C12: for every x that is none of the roots of unity, the evaluation returns
\* ((x^N - 1) / N) * sum of p[i] * w_i / (x - w_i), which is the value at x of
\* the polynomial of degree < N with value p[i] at w_i, and the same result is
\* returned when p and the roots are both given in the other indexing.
C12_EvaluateIsBarycentricFormula ==
    (/\ EvaluateDone /\ RootsDistinct(kzg_settings.roots_of_unity)
     /\ ~IsRoot(args.x, kzg_settings.roots_of_unity))
        => /\ result = Ok(BarycentricFormula(args.polynomial, args.x,
                                             kzg_settings.roots_of_unity))
           /\ result = Ok(LagrangeValue(args.polynomial, args.x,
                                        kzg_settings.roots_of_unity,
                                        NUM_FIELD_ELEMENTS_PER_BLOB))
           /\ result = evaluate_polynomial_in_evaluation_form(
                           Reindexed(args.polynomial), args.x,
                           [kzg_settings EXCEPT
                               !.roots_of_unity = Reindexed(kzg_settings.roots_of_unity)])

\* The evaluation of the polynomial 7 i + 3 (i = 1..N) at x = 5.
C12_Witness ==
    /\ EvaluateDone /\ RootsDistinct(kzg_settings.roots_of_unity)
    /\ args.x = ToMont(5)
    /\ ~IsRoot(args.x, kzg_settings.roots_of_unity)
    /\ args.polynomial[1] = ToMont(10) /\ args.polynomial[2] = ToMont(17)
    /\ IsOk(result)

\* ---- scalar_from_bytes_unchecked

\* The integer a Scalar stands for, read from its canonical bytes.
Represented(scalar) == LEValue(ScalarToBytes(scalar))

LoadDone == Done("load_trusted_setup_file_brute")

\* The G1 points in the order of the text (the loader stores them
\* bit-reversed, and the permutation is its own inverse).
TextOrder(g1_points) == bit_reversal_permutation(g1_points, NUM_G1_POINTS, G1Identity).val

\* C14: the loader never returns Ok settings built from points that fail the
\* pairing check e(g1[1], g2[0]) = e(g1[0], g2[1]); a text whose points fail
\* it gives the error InvalidTrustedSetup.
C14_FailedPairingCheckIsError ==
    LoadDone
        => /\ IsOk(result)
                => IsOk(is_trusted_setup_in_lagrange_form(
                            TextOrder(result.val.g1_points), result.val.g2_points))
           /\ args.trusted_setup_file =
                  SetupText(NUM_G1_POINTS, NUM_G2_POINTS, LagrangePoints(NUM_G1_POINTS),
                            MonomialPoints(3, NUM_G2_POINTS))
                => IsErr(result, "InvalidTrustedSetup")

\* The counts a text declares in its first two lines.
DeclaredCounts ==
    <<parse_usize(args.trusted_setup_file[1]), parse_usize(args.trusted_setup_file[2])>>

\* C15: the loader returns Ok settings only for a text that declares
\* NUM_G1_POINTS and NUM_G2_POINTS points; for other counts, smaller or larger,
\* it returns no Ok settings.
C15_OnlyDeclaredCountsAccepted ==
    LoadDone /\ IsOk(result)
        => DeclaredCounts = <<Some(NUM_G1_POINTS), Some(NUM_G2_POINTS)>>

\* A point line with a character that is no hex digit (and no x).
NotHexLine(i) ==
    /\ i \in 3..Len(args.trusted_setup_file)
    /\ \E k \in 1..Len(args.trusted_setup_file[i]) : args.trusted_setup_file[i][k] > 16

\* C16: every failure of the text load is an error value of the loader and no
\* abort; a point line that is not valid hex gives Err(InvalidHexFormat).
C16_LoadFailuresAreErrors ==
    LoadDone
        => /\ ~IsPanic(result)
           /\ (\E i \in 1..Len(args.trusted_setup_file) : NotHexLine(i))
                => IsErr(result, "InvalidHexFormat")

\* ---- compute_roots_of_unity

RECURSIVE ScalarProduct(_, _)
\* The product of the first n entries of a.
ScalarProduct(a, n) ==
    IF n = 0 THEN ScalarOne ELSE ScalarMul(ScalarProduct(a, n - 1), a[n])

\* compute_roots_of_unity has run for the scale of the blob, N = 2^max_scale.
RootsDone == Done("compute_roots_of_unity") /\ args.max_scale = MaxScale

\* The array has exactly N entries, pairwise distinct, each with w^N = 1.
RootsOfUnityArray(roots) ==
    /\ Len(roots) = NUM_FIELD_ELEMENTS_PER_BLOB
    /\ RootsDistinct(roots)
    /\ \A i \in 1..NUM_FIELD_ELEMENTS_PER_BLOB :
          ScalarPow(roots[i], NUM_FIELD_ELEMENTS_PER_BLOB) = ScalarOne

C18_CacheEqualsTextLoad ==
    Done("KzgSettings::load_trusted_setup_file")
        => LET files == main(args.trusted_setup_file, args.padding).val
           IN /\ result = load_trusted_setup_file_brute(args.trusted_setup_file)
              /\ Len(result.val.roots_of_unity) * BYTES_PER_FIELD_ELEMENT
                    = Len(files.roots_of_unity_bin)
              /\ Len(result.val.g1_points) * G1AffineSize = Len(files.g1_bin)
              /\ Len(result.val.g2_points) = NUM_G2_POINTS
              /\ Len(result.val.g2_points) * G2AffineSize = Len(files.g2_bin)

\* ---- EnvKzgSettings::get

DefaultThreads == {t \in DOMAIN threads : threads[t].self = Default}

\* Every reference returned by Default.get() is the one object the cell holds,
\* which is allocated; Custom(s).get() has returned s only.
OneDefaultObject ==
    /\ \A t \in DefaultThreads : threads[t].returned \subseteq {DEFAULT} \cap heap
    /\ \A t \in DOMAIN threads \ DefaultThreads :
          threads[t].returned \subseteq {threads[t].self}

\* A step leaves a default that is set as it is, and a step of a thread that
\* holds a Custom leaves the default as it is.
DefaultWrittenOnce ==
    /\ DEFAULT /= Null => DEFAULT' = DEFAULT
    /\ \A t \in DOMAIN threads \ DefaultThreads :
          threads'[t] /= threads[t] => DEFAULT' = DEFAULT

\* C19: in every interleaving of the threads that call get(), every call of
\* Default.get() returns a reference to the same KzgSettings object; once the
\* default is set it is never replaced, also when several threads run the
\* initialiser at the same time; Custom(s).get() returns s and leaves the
\* default alone.
C19_DefaultIsWriteOnceSingleton ==
    [](OneDefaultObject) /\ [][DefaultWrittenOnce]_vars

\* Two threads have run the initialiser at the same time, one has lost the
\* exchange, and both have returned from Default.get().
C19_Witness ==
    \E t, u \in DefaultThreads :
        /\ t /= u
        /\ threads[t].returned = {<<"box", t, 0>>}
        /\ threads[u].returned = {<<"box", t, 0>>}
        /\ <<"box", u, 0>> \notin heap
        /\ threads[u].calls = MaxCalls

\* ---- from_slice

\* C20: Bytes32::from_slice, Bytes48::from_slice and Blob::from_slice return Ok
\* holding exactly the given bytes (as_slice returns the input) when the slice
\* has the size of the type, and Err(InvalidBytesLength) for every other
\* length, shorter or longer.
C20_FromSliceExactLength ==
    Done("from_slice")
        => IF Len(args.slice) = BytesTypes[args.type]
           THEN IsOk(result) /\ as_slice(result.val) = args.slice
           ELSE result = Err("InvalidBytesLength")

\* A blob of one byte more than BYTES_PER_BLOB is rejected.
C20_Witness ==
    /\ Done("from_slice")
    /\ args.type = "Blob"
    /\ Len(args.slice) = BYTES_PER_BLOB + 1
    /\ result = Err("InvalidBytesLength")

\* ---------------------------------------------------------------- C21

ChallengeDone == Done("compute_challenge")

\* The bytes the challenge is to be the hash of: domain, 8 zero bytes, the
\* 8-byte big-endian number of field elements, the blob, the compressed
\* commitment.
ChallengeLayout(b, c) ==
    FIAT_SHAMIR_PROTOCOL_DOMAIN \o Zeros(8) \o to_be_bytes(NUM_FIELD_ELEMENTS_PER_BLOB, 8)
        \o b \o G1ToCompressed(c)

\* C21: compute_challenge hashes a buffer of exactly CHALLENGE_INPUT_SIZE bytes
\* that is the domain, 8 zero bytes, the big-endian number of field elements,
\* the blob and the compressed commitment, in this order without gap or
\* overlap; the final offset is CHALLENGE_INPUT_SIZE, so InvalidBytesLength is
\* never returned, and no other (blob, commitment) pair gives the same buffer.
C21_ChallengeBufferLayout ==
    ChallengeDone =>
        LET written == ChallengeBytes(args.blob, args.commitment)
        IN /\ Len(written.bytes) = CHALLENGE_INPUT_SIZE
           /\ CHALLENGE_INPUT_SIZE = 16 + 8 + 8 + BYTES_PER_BLOB + BYTES_PER_COMMITMENT
           /\ written.bytes = ChallengeLayout(args.blob, args.commitment)
           /\ written.offset = CHALLENGE_INPUT_SIZE
           /\ ~IsErr(result, "InvalidBytesLength")
           /\ result = Ok(scalar_from_bytes_unchecked(
                             Sha256Digest(ChallengeLayout(args.blob, args.commitment))))
           /\ \A other \in ChallengeInputs :
                 ChallengeBytes(other[1], other[2]).bytes = written.bytes
                    => other = <<args.blob, args.commitment>>

\* A challenge was computed for a blob whose last byte is not zero and a
\* commitment that is not the identity.
C21_Witness ==
    /\ ChallengeDone
    /\ IsOk(result)
    /\ args.blob[BYTES_PER_BLOB] /= 0
    /\ args.commitment /= G1Identity

\* ---------------------------------------------------------------- C22

RPowersDone == Done("compute_r_powers")

RECURSIVE RPowersItems(_, _, _, _, _)
\* C_i, z_i, y_i, P_i for i = k .. n, one after the other.
RPowersItems(cs, zs, ys, ps, k) ==
    IF k > Len(cs) THEN <<>>
    ELSE G1ToCompressed(cs[k]) \o ScalarToBytes(zs[k]) \o ScalarToBytes(ys[k])
            \o G1ToCompressed(ps[k]) \o RPowersItems(cs, zs, ys, ps, k + 1)

\* The bytes r is to be the hash of: batch domain, the 8-byte big-endian
\* number of field elements, the 8-byte big-endian n, the n items.
RPowersLayout(cs, zs, ys, ps) ==
    RANDOM_CHALLENGE_KZG_BATCH_DOMAIN \o to_be_bytes(NUM_FIELD_ELEMENTS_PER_BLOB, 8)
        \o to_be_bytes(Len(cs), 8) \o RPowersItems(cs, zs, ys, ps, 1)

\* The challenge r of the layout above.
RPowersChallenge ==
    scalar_from_bytes_unchecked(
        Sha256Digest(RPowersLayout(args.commitment, args.zs, args.ys, args.proofs)))

\* The result is the n scalars r^0 .. r^(n-1) of the challenge r.
RPowersOf(r) ==
    /\ IsOk(result)
    /\ Len(result.val) = Len(args.commitment)
    /\ \A i \in 1..Len(result.val) : result.val[i] = ScalarPow(r, i - 1)
    /\ Len(result.val) > 0 => result.val[1] = ScalarOne

\* The buffer is as long as 32 bytes and n items, and the final offset is
\* its length.
RPowersWholeBuffer ==
    LET written == RPowersBytes(args.commitment, args.zs, args.ys, args.proofs)
    IN /\ Len(written.bytes) = 32 + Len(args.commitment)
                * (2 * BYTES_PER_COMMITMENT + 2 * BYTES_PER_FIELD_ELEMENT)
       /\ written.offset = Len(written.bytes)
       /\ ~IsErr(result, "InvalidBytesLength")

\* C22: compute_r_powers returns n = |Cs| scalars of which element i is r^i
\* (element 0 is 1 for every r), where r is the reduced hash of the buffer of
\* 32 bytes and n items that is the batch domain, the 8-byte big-endian number
\* of field elements, the 8-byte big-endian n and C_i, z_i, y_i, P_i in order;
\* the final offset is the buffer length and InvalidBytesLength is never
\* returned.
C22_RPowersOfLayout ==
    RPowersDone =>
        /\ RPowersWholeBuffer
        /\ RPowersBytes(args.commitment, args.zs, args.ys, args.proofs).bytes
              = RPowersLayout(args.commitment, args.zs, args.ys, args.proofs)
        /\ RPowersOf(RPowersChallenge)

\* ---------------------------------------------------------------- C23

ExpandDone == Done("expand_root_of_unity")

\* The indices k in 1..limit at which the sequence 1, root, root^2, ... is 1.
Returns(root, limit) == {k \in 1..limit : ScalarPow(root, k) = ScalarOne}

\* The sequence first returns to 1 at index width.
ClosesAt(root, width) == width \in Returns(root, width) /\ Returns(root, width - 1) = {}

\* The root that compute_roots_of_unity expands for max_scale.
TableRoot(max_scale) == ToMont(SCALE2_ROOT_OF_UNITY[max_scale + 1])

\* C23: expand_root_of_unity(root, width) returns Ok only when the sequence
\* 1, root, root^2, ... first returns to 1 at exactly index width, with
\* width + 1 elements; when the sequence closes earlier or has not closed
\* after width steps it fails with InvalidTrustedSetup; so every slot of an
\* array returned by compute_roots_of_unity holds a power of the root.
C23_ExpandClosesExactlyAtWidth ==
    /\ ExpandDone =>
          /\ IsOk(result) => ClosesAt(args.root, args.width)
                                /\ Len(result.val) = args.width + 1
          /\ (args.width >= 2 /\ ~ClosesAt(args.root, args.width))
                => IsErr(result, "InvalidTrustedSetup")
    /\ (Done("compute_roots_of_unity") /\ IsOk(result)) =>
          \A j \in 1..NUM_ROOTS_OF_UNITY :
              \E i \in 0..(NUM_ROOTS_OF_UNITY - 1) :
                  result.val[j] = ScalarPow(TableRoot(args.max_scale), i)

\* ---------------------------------------------------------------- C24

PermutationDone == Done("bit_reversal_permutation")

\* brp(i) for an array of n elements: the reversal of the low log2(n) bits.
Brp(i, n) == reverse_bits(i, BitLength(n) - 1)

\* The array has as many elements as the output, a power of two that is >= 2.
FullArray ==
    /\ Len(args.array) = args.N
    /\ args.N >= 2
    /\ \E k \in 1..UsizeBits : args.N = 2 ^ k

\* C24: for an input of n = N elements, n a power of two and n >= 2,
\* bit_reversal_permutation writes element i to output index brp(i), the
\* reversal of the low log2(n) bits of i; brp is an involution, every output
\* slot is written exactly once, the output is a permutation of the input and
\* permuting twice returns the original array.
C24_BitReversalIsInvolution ==
    (PermutationDone /\ FullArray) =>
        LET n == Len(args.array)
        IN /\ IsOk(result)
           /\ Len(result.val) = n
           /\ \A i \in 0..(n - 1) :
                 /\ Brp(i, n) \in 0..(n - 1)
                 /\ result.val[Brp(i, n) + 1] = args.array[i + 1]
                 /\ Brp(Brp(i, n), n) = i
           /\ \A j \in 0..(n - 1) : Cardinality({i \in 0..(n - 1) : Brp(i, n) = j}) = 1
           /\ \A v \in {args.array[i] : i \in 1..n} :
                 Cardinality({i \in 1..n : result.val[i] = v})
                    = Cardinality({i \in 1..n : args.array[i] = v})
           /\ bit_reversal_permutation(result.val, args.N, 0) = Ok(args.array)

\* An array of 2^MaxScale different elements was permuted, and its second
\* element moved.
C24_Witness ==
    /\ PermutationDone
    /\ FullArray
    /\ args.N = NUM_FIELD_ELEMENTS_PER_BLOB
    /\ Cardinality({args.array[i] : i \in 1..args.N}) = args.N
    /\ IsOk(result)
    /\ result.val[2] /= args.array[2]
    /\ result.val[(args.N \div 2) + 1] = args.array[2]

\* ---------------------------------------------------------------- C25

\* The G1 point of line i (counted from 0) of the points of the text.
TextPoint(i) == G1FromCompressed(hex_to_bytes(args.trusted_setup_file[i + 3]).val).v

\* The loader returned settings for a text that declares NUM_G1_POINTS points
\* in G1, so that max_scale is MaxScale.
LoadedFullSetup ==
    /\ LoadDone
    /\ IsOk(result)
    /\ DeclaredCounts[1] = Some(NUM_G1_POINTS)

\* C25: in the settings the loader returns, for every i below the number of
\* G1 points g1_points[brp(i)] is the i-th G1 point of the text and
\* roots_of_unity[brp(i)] is root^i for the root of max_scale, brp being the
\* reversal of the low max_scale bits for both arrays, so that index j of
\* the two arrays belongs to the same evaluation point.
C25_PointsAndRootsShareBrp ==
    LoadedFullSetup =>
        /\ NUM_G1_POINTS = 2 ^ MaxScale /\ NUM_ROOTS_OF_UNITY = NUM_G1_POINTS
        /\ Len(result.val.g1_points) = NUM_G1_POINTS
        /\ Len(result.val.roots_of_unity) = NUM_G1_POINTS
        /\ \A i \in 0..(NUM_G1_POINTS - 1) :
              LET j == reverse_bits(i, MaxScale) + 1
              IN /\ result.val.g1_points[j] = TextPoint(i)
                 /\ result.val.roots_of_unity[j] = ScalarPow(TableRoot(MaxScale), i)

\* Settings were loaded from a text of NUM_G1_POINTS different points, and
\* the second point of the text is not the second one of the settings.
C25_Witness ==
    /\ LoadedFullSetup
    /\ Cardinality({TextPoint(i) : i \in 0..(NUM_G1_POINTS - 1)}) = NUM_G1_POINTS
    /\ result.val.g1_points[2] /= TextPoint(1)
    /\ result.val.roots_of_unity[2] = ScalarNeg(ScalarOne)

\* ---------------------------------------------------------------- C26

InversionDone == Done("batch_inversion")

\* The first len entries of the source are not zero.
NonZeroSource == \A i \in 1..args.len : args.a[i] /= ScalarZero

\* C26: for a source whose first len entries are not zero and for every
\* initial content of the destination, batch_inversion returns Ok and leaves
\* out[i] * a[i] = 1 for every i < len.
C26_BatchInversionInverts ==
    (InversionDone /\ NonZeroSource) =>
        /\ IsOk(result)
        /\ \A i \in 1..args.len : ScalarMul(result.val[i], args.a[i]) = ScalarOne

\* ---------------------------------------------------------------- C27

\* floor(log2(x)) for x >= 1.
FloorLog2(x) == CHOOSE k \in 0..UsizeBits : 2 ^ k <= x /\ x < 2 ^ (k + 1)

\* C27: for n scalars the window size of msm_variable_base is 3 when n < 32
\* and floor(0.69 * log2(n)) + 2 when n >= 32, log2 being the base-2 logarithm
\* (5 for n = 32 and 6 for n = 64); log2(x) returns floor(log2(x)) for x >= 1.
C27_WindowSizeFromLog2 ==
    /\ (Done("log2") /\ args.n >= 1) => result = Value(FloorLog2(args.n))
    /\ Done("msm_variable_base: c") =>
          /\ args.n < 32 => result = Value(3)
          /\ args.n >= 32 => result = Value((69 * FloorLog2(args.n)) \div 100 + 2)
          /\ args.n = 32 => result = Value(5)
          /\ args.n = 64 => result = Value(6)

\* ---------------------------------------------------------------- C28

\* The c-bit slice at offset w of the canonical value of the scalar s.
SliceOf(s, w, c) == (montgomery_reduce(s) \div 2 ^ w) % 2 ^ c

RECURSIVE SliceSum(_, _, _, _)
\* The sum of the first n points whose scalar is neither 0 nor 1 and has the
\* slice k in the window at w.
SliceSum(k, w, c, n) ==
    IF n = 0 THEN G1Identity
    ELSE IF scalars[n] \notin {ScalarZero, ScalarOne} /\ SliceOf(scalars[n], w, c) = k
         THEN G1Add(SliceSum(k, w, c, n - 1), points[n])
         ELSE SliceSum(k, w, c, n - 1)

\* The window at w was filled without failure, and its bucket of index
\* slice - 1 holds the points of the scalars with that slice.
WindowBucketsBySlice(w, c) ==
    LET n == Min(Len(scalars), Len(points))
        st == WindowFill(points, scalars, w, c, n)
    IN /\ st.tag = "Ok"
       /\ \A k \in 1..(2 ^ c - 1) : st.buckets[k] = SliceSum(k, w, c, n)

\* C28: in msm_variable_base, for every window start w = 0, c, 2c, ... below
\* the number of bits and every scalar other than 0 and 1, the point is added
\* to the bucket of index ((v >> w) mod 2^c) - 1, v being the canonical value
\* of the scalar, and to no bucket when that slice is 0; this holds for w = 0
\* too, and computing the slice never fails.
C28_BucketIsShiftedSlice ==
    Done("msm_variable_base") =>
        LET c == WindowSize(Len(scalars))
        IN \A j \in 0..((num_bits - 1) \div c) : WindowBucketsBySlice(j * c, c)

====
